---- MODULE Spec2Model ----
(***************************************************************************)
(* QuantFlow: the TradingEngine control loop and state machine together    *)
(* with the RiskManager and the paper-trading PortfolioManager it drives.  *)
(*                                                                         *)
(* Units.  Prices are whole dollars, quantities whole units, and every     *)
(* amount of money (cash_balance, total_value, daily_pnl, peak value) is   *)
(* counted in mills (1/1000 dollar), so that the 0.1% fee of               *)
(* _process_trade_execution is the exact integer quantity * price.         *)
(* Fractions of the configuration (0.05, 0.15, ...) are whole percents and *)
(* are compared by cross-multiplication.  Sizes are floored to the unit.   *)
(* Time is counted in ticks of 30 seconds; the intervals of the settings   *)
(* (DATA_UPDATE_INTERVAL, SIGNAL_COOLDOWN_SECONDS, MIN_HOLD_SECONDS) are    *)
(* configured in ticks.                                                    *)
(*                                                                         *)
(* Scheduling.  The engine runs on one asyncio event loop: a coroutine     *)
(* keeps the thread until it reaches an await that really suspends.  The   *)
(* variable turn says who holds the thread; the loop task suspends at the  *)
(* data fetch and at its two sleeps, stop() suspends while it awaits the   *)
(* cancelled task, and start() never suspends (PortfolioManager and        *)
(* NotificationService do blocking I/O and finish every await at once).    *)
(***************************************************************************)
EXTENDS Integers, Sequences, FiniteSets, TLC

(* ---------------- bounds of the model ---------------- *)
MaxTime == 1
MaxTasks == 2
MaxSignals == 1
MaxPrice == 4

(* ---------------- program constants and configuration ---------------- *)
None == -1
Mills == 1000
FeePerMille == 1
HourTicks == 120
DayTicks == 2880
BackoffTicks == 1
DATA_UPDATE_INTERVAL == 1
RecentEventsMaxLen == 50
DEFAULT_CAPITAL == 10000
MAX_POSITION_SIZE == 10
MAX_PORTFOLIO_RISK == 2
MAX_DAILY_LOSS == 5
MAX_DRAWDOWN == 15
MAX_SECTOR_EXPOSURE == 30
MAX_DAILY_TRADES == 1
MAX_TRADES_PER_HOUR == 2
MIN_VOLUME == 0
MIN_POSITION_UNITS == 1
MIN_POSITION_NOTIONAL == 10
SIGNAL_COOLDOWN_SECONDS == 1
MIN_HOLD_SECONDS == 1
MIN_SIGNAL_CONFIDENCE == 55
CONFLICT_STRENGTH_RATIO == 135
MAX_SIGNALS_PER_CYCLE == 3
SOLANA_EXECUTOR_MAX_RETRIES == 2
FIXED_TRADE_NOTIONAL_USD == 0     \* dollars; 0 disables fixed-notional sizing
MAX_BUY_NOTIONAL_USD == 0
STOP_LOSS_PERCENTAGE == 5
TAKE_PROFIT_PERCENTAGE == 15
ENTRY_FILTER_MIN_HISTORY == 8
ENTRY_FILTER_MIN_EXPECTED_EDGE == 40
ENTRY_FILTER_FEE_BPS_PER_SIDE == 10
ENTRY_FILTER_SLIPPAGE_BPS == 6
ENTRY_FILTER_VOL_MULTIPLIER == 75
ENTRY_FILTER_MIN_RR == 120
ENTRY_FILTER_TREND_Z_MIN == 15
MinPrice == 2

DEFAULT_SYMBOLS == <<"BTC-USD", "ETH-USD">>
Symbols == {DEFAULT_SYMBOLS[i] : i \in DOMAIN DEFAULT_SYMBOLS}
ENABLED_STRATEGIES == {"momentum", "mean_reversion"}
TradingState == {"STOPPED", "STARTING", "RUNNING", "STOPPING", "ERROR"}
Prices == MinPrice..MaxPrice

Abs(x) == IF x < 0 THEN -x ELSE x
Min(a, b) == IF a < b THEN a ELSE b
Max(a, b) == IF a > b THEN a ELSE b

VARIABLES
  state,              \* TradingEngine.state
  is_running_flag,    \* TradingEngine.is_running_flag
  trading_task,       \* TradingEngine.trading_task: 0 is None, else the id of the task
  task_pc,            \* where each _trading_loop task stands
  cancel_requested,   \* Task.cancel() was called on the task and not yet delivered
  wake_at,            \* the time a sleeping task may wake
  turn,               \* who holds the event-loop thread
  start_pc,           \* position of the running start() call
  stop_pc,            \* position of the stop() call in progress
  ret,                \* how the last finished start()/stop() call ended
  now,                \* datetime.utcnow(), in ticks
  db_portfolio,       \* the portfolio and positions rows of the database
  trade_rows,         \* the Trade rows this engine's executions have written, oldest first
  portfolio_manager,  \* PortfolioManager: initialized, cash_balance, total_value, positions
  risk_manager,       \* RiskManager: risk_limits and RiskState
  strategies,         \* performance_metrics of each strategy
  recent_events,      \* TradingEngine.recent_events, most recent first
  last_trade_at,      \* TradingEngine.last_trade_at
  trade_timestamps,   \* TradingEngine.trade_timestamps
  market_data,        \* the cycle's market_data
  history_ok,         \* whether every history row of market_data has a numeric close
  signals,            \* the cycle's generated signals
  pending,            \* consolidated signals still to process this cycle
  exit_items,         \* list(positions.items()) still to sweep this cycle
  orders,             \* trade_data handed to PortfolioManager.execute_trade this cycle
  calls,              \* the calls the last pass of the body of _process_signals made, in order
  risk_result,        \* the (ok, reason) of the cycle's check_risk_limits
  settings,           \* app.core.config.settings: the hot-reloadable thresholds
  last_alert          \* the last call on the NotificationService and its boolean result

vars == <<state, is_running_flag, trading_task, task_pc, cancel_requested, wake_at,
          turn, start_pc, stop_pc, ret, now, db_portfolio, trade_rows, portfolio_manager,
          risk_manager, strategies, recent_events, last_trade_at, trade_timestamps,
          market_data, history_ok, signals, pending, exit_items, orders, calls, risk_result,
          settings, last_alert>>

engine_vars == <<state, is_running_flag, trading_task, task_pc, cancel_requested, wake_at>>
call_vars == <<start_pc, stop_pc, ret>>
book_vars == <<db_portfolio, trade_rows, portfolio_manager, risk_manager, strategies, recent_events,
               last_trade_at, trade_timestamps>>
cycle_vars == <<market_data, history_ok, signals, pending, exit_items, orders, calls>>

(* ======================= PortfolioManager ======================= *)

\* A position row: the fields of PortfolioManager.positions[symbol] the core reads.
Position(qty, avg, cur, sl, tp, opened) ==
  [quantity |-> qty, average_price |-> avg, current_price |-> cur,
   stop_loss |-> sl, take_profit |-> tp, opened_at |-> opened]

\* The rows _create_or_get_portfolio and _load_positions may find: a new
\* portfolio of DEFAULT_CAPITAL, or an existing one holding a position bought
\* with half of it, its stop-loss a dollar below and its take-profit a dollar
\* above the price paid.
DbPortfolios ==
  { [cash_balance |-> DEFAULT_CAPITAL * Mills, total_value |-> DEFAULT_CAPITAL * Mills,
     positions |-> <<>>],
    [cash_balance |-> (DEFAULT_CAPITAL \div 2) * Mills,
     total_value |-> (DEFAULT_CAPITAL \div 2) * Mills
                       + ((DEFAULT_CAPITAL \div 2) \div (MinPrice + 1)) * (MinPrice + 1) * Mills,
     positions |-> (DEFAULT_SYMBOLS[1] :>
        Position((DEFAULT_CAPITAL \div 2) \div (MinPrice + 1), MinPrice + 1, MinPrice + 1,
                 MinPrice, MinPrice + 2, 0))] }

RECURSIVE InvestedAmount(_, _)
InvestedAmount(positions, syms) ==
  IF syms = {} THEN 0
  ELSE LET s == CHOOSE x \in syms : TRUE
       IN positions[s].quantity * positions[s].current_price * Mills
          + InvestedAmount(positions, syms \ {s})

\* PortfolioManager._calculate_total_value
_calculate_total_value(pm) ==
  [pm EXCEPT !.total_value = pm.cash_balance + InvestedAmount(pm.positions, DOMAIN pm.positions)]

Remove(f, k) == [x \in (DOMAIN f) \ {k} |-> f[x]]
Put(f, k, v) == [x \in (DOMAIN f) \cup {k} |-> IF x = k THEN v ELSE f[x]]

\* PortfolioManager._process_trade_execution, paper trading (OKX disabled):
\* filled at the signal price, fee 0.1% of the traded value.
_process_trade_execution(trade_data) ==
  [ok |-> TRUE, symbol |-> trade_data.symbol, side |-> trade_data.side,
   quantity |-> trade_data.quantity, price |-> trade_data.price,
   fees |-> trade_data.quantity * trade_data.price * FeePerMille,
   strategy |-> trade_data.strategy, stop_loss |-> trade_data.stop_loss,
   take_profit |-> trade_data.take_profit, pnl |-> 0]

NoTrade == [ok |-> FALSE]

\* PortfolioManager._update_portfolio_after_trade: the pair (portfolio, trade_result)
_update_portfolio_after_trade(pm, tr, t) ==
  LET trade_value == tr.quantity * tr.price * Mills
      held == tr.symbol \in DOMAIN pm.positions
  IN IF tr.side = "BUY"
     THEN LET pm1 == [pm EXCEPT !.cash_balance = @ - (trade_value + tr.fees)]
              pos == pm.positions[tr.symbol]
              total_quantity == pos.quantity + tr.quantity
              total_cost == pos.quantity * pos.average_price + tr.quantity * tr.price
              newpos == IF held
                        THEN [pos EXCEPT !.quantity = total_quantity,
                                         !.average_price = total_cost \div total_quantity]
                        ELSE Position(tr.quantity, tr.price, tr.price,
                                      tr.stop_loss, tr.take_profit, t)
          IN [pm |-> _calculate_total_value(
                        [pm1 EXCEPT !.positions = Put(pm.positions, tr.symbol, newpos)]),
              tr |-> tr]
     ELSE LET pm1 == [pm EXCEPT !.cash_balance = @ + (trade_value - tr.fees)]
          IN IF held
             THEN LET pos == pm.positions[tr.symbol]
                      closes == tr.quantity >= pos.quantity
                      realized_pnl ==
                        IF closes
                        THEN (tr.price - pos.average_price) * pos.quantity * Mills - tr.fees
                        ELSE (tr.price - pos.average_price) * tr.quantity * Mills - tr.fees
                      positions1 ==
                        IF closes THEN Remove(pm.positions, tr.symbol)
                        ELSE Put(pm.positions, tr.symbol,
                                 [pos EXCEPT !.quantity = @ - tr.quantity])
                  IN [pm |-> _calculate_total_value([pm1 EXCEPT !.positions = positions1]),
                      tr |-> [tr EXCEPT !.pnl = realized_pnl]]
             ELSE [pm |-> _calculate_total_value(pm1), tr |-> tr]

\* PortfolioManager.execute_trade: the pair (portfolio, trade_result or NoTrade)
execute_trade(pm, trade_data, t) ==
  LET trade_value == trade_data.quantity * trade_data.price * Mills
      held == trade_data.symbol \in DOMAIN pm.positions
  IN IF trade_data.side = "BUY" /\ trade_value > pm.cash_balance
     THEN [pm |-> pm, tr |-> NoTrade]
     ELSE IF trade_data.side = "SELL"
               /\ (~held \/ pm.positions[trade_data.symbol].quantity <= 0)
     THEN [pm |-> pm, tr |-> NoTrade]
     ELSE LET capped ==
                IF trade_data.side = "SELL"
                   /\ trade_data.quantity > pm.positions[trade_data.symbol].quantity
                THEN [trade_data EXCEPT !.quantity = pm.positions[trade_data.symbol].quantity]
                ELSE trade_data
          IN _update_portfolio_after_trade(pm, _process_trade_execution(capped), t)

\* PortfolioManager._record_trade_in_db, called by execute_trade for a trade
\* that executed: the Trade row carries the trade_result's timestamp
_record_trade_in_db(rows, tr, t) ==
  IF tr.ok
  THEN Append(rows, [symbol |-> tr.symbol, side |-> tr.side, strategy |-> tr.strategy,
                     timestamp |-> t, pnl |-> tr.pnl])
  ELSE rows

\* PortfolioManager.update_portfolio: mark every position to the snapshot price
update_portfolio(pm, md) ==
  _calculate_total_value(
    [pm EXCEPT !.positions =
       [s \in DOMAIN pm.positions |->
          IF s \in DOMAIN md /\ md[s] # None
          THEN [pm.positions[s] EXCEPT !.current_price = md[s]]
          ELSE pm.positions[s]]])

(* ========================= RiskManager ========================= *)

\* RiskLimits as RiskManager.__init__ leaves them (fractions in percent)
RiskLimits ==
  [max_position_size |-> MAX_POSITION_SIZE, max_portfolio_risk |-> MAX_PORTFOLIO_RISK,
   max_daily_loss |-> MAX_DAILY_LOSS, max_drawdown |-> MAX_DRAWDOWN,
   max_sector_exposure |-> MAX_SECTOR_EXPOSURE, max_daily_trades |-> MAX_DAILY_TRADES,
   min_volume |-> MIN_VOLUME]

\* datetime.utcnow().date()
Date(t) == t \div DayTicks

\* RiskManager._get_portfolio_value
_get_portfolio_value(pm) == Max(pm.total_value, 0)

\* RiskManager.__init__
NewRiskManager(pm, t) ==
  [risk_limits |-> RiskLimits, daily_trades |-> 0, daily_pnl |-> 0,
   last_reset_date |-> Date(t), peak_portfolio_value |-> Max(_get_portfolio_value(pm), 0)]

\* RiskManager._reset_daily_counters_if_needed
_reset_daily_counters_if_needed(rm, t) ==
  IF Date(t) # rm.last_reset_date
  THEN [rm EXCEPT !.daily_trades = 0, !.daily_pnl = 0, !.last_reset_date = Date(t)]
  ELSE rm

\* RiskManager._current_drawdown_ratio > max_drawdown, cross-multiplied:
\* max((peak - value) / peak, 0) > max_drawdown / 100
DrawdownExceeds(rm, portfolio_value) ==
  IF portfolio_value <= 0 THEN 100 > rm.risk_limits.max_drawdown
  ELSE IF rm.peak_portfolio_value <= 0 THEN 0 > rm.risk_limits.max_drawdown
  ELSE Max(rm.peak_portfolio_value - portfolio_value, 0) * 100
         > rm.risk_limits.max_drawdown * rm.peak_portfolio_value

\* the daily-loss comparison with a strict inequality
DailyLossStrictlyExceeded(rm, portfolio_value) ==
  rm.daily_pnl * 100 < -(portfolio_value * rm.risk_limits.max_daily_loss)

\* RiskManager.check_risk_limits, the daily-loss comparison:
\* daily_pnl <= -(portfolio_value * max_daily_loss)
DailyLossExceeded(rm, portfolio_value) ==
  rm.daily_pnl * 100 <= -(portfolio_value * rm.risk_limits.max_daily_loss)

\* a check that overwrites the peak with the current portfolio value
CheckRiskLimitsPeakIsValue(rm, pm, t) ==
  LET rm1 == _reset_daily_counters_if_needed(rm, t)
      portfolio_value == _get_portfolio_value(pm)
      rm2 == [rm1 EXCEPT !.peak_portfolio_value = portfolio_value]
  IN IF portfolio_value <= 0
     THEN [ok |-> FALSE, reason |-> "portfolio value is non-positive", rm |-> rm1]
     ELSE IF DailyLossExceeded(rm2, portfolio_value)
     THEN [ok |-> FALSE, reason |-> "daily loss limit exceeded", rm |-> rm2]
     ELSE IF DrawdownExceeds(rm2, portfolio_value)
     THEN [ok |-> FALSE, reason |-> "max drawdown exceeded", rm |-> rm2]
     ELSE [ok |-> TRUE, reason |-> "", rm |-> rm2]

\* RiskManager.check_risk_limits: (ok, reason) and the RiskManager it leaves
check_risk_limits(rm, pm, t) ==
  LET rm1 == _reset_daily_counters_if_needed(rm, t)
      portfolio_value == _get_portfolio_value(pm)
      rm2 == [rm1 EXCEPT !.peak_portfolio_value = Max(@, portfolio_value)]
  IN IF portfolio_value <= 0
     THEN [ok |-> FALSE, reason |-> "portfolio value is non-positive", rm |-> rm1]
     ELSE IF DailyLossExceeded(rm2, portfolio_value)
     THEN [ok |-> FALSE, reason |-> "daily loss limit exceeded", rm |-> rm2]
     ELSE IF DrawdownExceeds(rm2, portfolio_value)
     THEN [ok |-> FALSE, reason |-> "max drawdown exceeded", rm |-> rm2]
     ELSE [ok |-> TRUE, reason |-> "", rm |-> rm2]

\* RiskManager.record_trade
record_trade(rm, pm, trade_result) ==
  LET portfolio_value == _get_portfolio_value(pm)
  IN [rm EXCEPT !.daily_trades = @ + 1,
                !.daily_pnl = @ + trade_result.pnl,
                !.peak_portfolio_value =
                    IF portfolio_value > 0 THEN Max(@, portfolio_value) ELSE @]

\* RiskManager.get_risk_metrics: the counters it reports and the RiskManager
\* it leaves (the exposures and the drawdown it refreshes are derived values)
get_risk_metrics(rm, pm, t) ==
  LET rm1 == _reset_daily_counters_if_needed(rm, t)
  IN [metrics |-> [daily_trades |-> rm1.daily_trades, daily_pnl |-> rm1.daily_pnl,
                   last_reset_date |-> rm1.last_reset_date],
      rm |-> rm1]

\* an update that leaves the live limits as they are
UpdateRiskLimitsIgnored(rm, new_limits) == rm

\* RiskManager.update_risk_limits: the keys RiskLimits has are set, the others
\* ignored
update_risk_limits(rm, new_limits) ==
  [rm EXCEPT !.risk_limits =
     [k \in DOMAIN @ |-> IF k \in DOMAIN new_limits THEN new_limits[k] ELSE @[k]]]

\* a sizing that treats a SELL like a BUY
SizeSellByRisk(rm, pm, signal) ==
  LET portfolio_value == _get_portfolio_value(pm)
      risk_per_share == Abs(signal.price - signal.stop_loss)
  IN IF portfolio_value <= 0 \/ signal.stop_loss = None \/ risk_per_share <= 0
     THEN 0
     ELSE Min((portfolio_value * rm.risk_limits.max_portfolio_risk)
                \div (100 * risk_per_share * Mills),
              (portfolio_value * rm.risk_limits.max_position_size)
                \div (100 * signal.price * Mills))

\* RiskManager.calculate_position_size
calculate_position_size(rm, pm, signal) ==
  IF signal.action = "SELL"
  THEN IF signal.symbol \in DOMAIN pm.positions
       THEN Max(pm.positions[signal.symbol].quantity, 0)
       ELSE 0
  ELSE LET portfolio_value == _get_portfolio_value(pm)
           risk_per_share == Abs(signal.price - signal.stop_loss)
       IN IF portfolio_value <= 0 \/ signal.stop_loss = None \/ risk_per_share <= 0
          THEN 0
          ELSE LET position_size ==
                     (portfolio_value * rm.risk_limits.max_portfolio_risk)
                       \div (100 * risk_per_share * Mills)
                   max_units_by_value ==
                     IF signal.price > 0
                     THEN (portfolio_value * rm.risk_limits.max_position_size)
                            \div (100 * signal.price * Mills)
                     ELSE 0
                   final_position_size == Min(position_size, max_units_by_value)
                   floored == Max(final_position_size, MIN_POSITION_UNITS)
               IN IF final_position_size <= 0 THEN 0
                  ELSE IF signal.price > 0 /\ floored * signal.price < MIN_POSITION_NOTIONAL
                  THEN MIN_POSITION_NOTIONAL \div signal.price
                  ELSE floored

\* RiskManager._check_daily_trade_limit (after the reset)
_check_daily_trade_limit(rm) == rm.daily_trades < rm.risk_limits.max_daily_trades

\* a daily-loss check with the sign of the limit lost: daily_pnl < limit
DailyLossCheckSignSlip(rm, pm) ==
  rm.daily_pnl * 100 < _get_portfolio_value(pm) * rm.risk_limits.max_daily_loss

\* RiskManager._check_daily_loss_limit (after the reset):
\* daily_pnl > -(portfolio_value * max_daily_loss)
_check_daily_loss_limit(rm, pm) ==
  rm.daily_pnl * 100 > -(_get_portfolio_value(pm) * rm.risk_limits.max_daily_loss)

\* RiskManager._check_correlation_limit: the Pearson correlation of the
\* candidate's returns with those of an open position is a fact of the price
\* history the signal carries (signal.correlated); it binds BUYs only and only
\* while a position with quantity > 0 is open.
_check_correlation_limit(rm, pm, signal) ==
  \/ signal.action = "SELL"
  \/ \A s \in DOMAIN pm.positions : pm.positions[s].quantity <= 0
  \/ ~signal.correlated

\* a risk check that looks at the size before the minimum units and notional
PortfolioRiskCheckUnfloored(rm, pm, signal) ==
  \/ signal.action = "SELL"
  \/ /\ signal.stop_loss # None
     /\ _get_portfolio_value(pm) > 0
     /\ Abs(signal.price - signal.stop_loss) * SizeSellByRisk(rm, pm, signal)
          * Mills * 100
        <= rm.risk_limits.max_portfolio_risk * _get_portfolio_value(pm)

\* RiskManager._check_portfolio_risk_limit
_check_portfolio_risk_limit(rm, pm, signal) ==
  \/ signal.action = "SELL"
  \/ /\ signal.stop_loss # None
     /\ _get_portfolio_value(pm) > 0
     /\ Abs(signal.price - signal.stop_loss) * calculate_position_size(rm, pm, signal)
          * Mills * 100
        <= rm.risk_limits.max_portfolio_risk * _get_portfolio_value(pm)

\* RiskManager._compute_symbol_exposures, as the value held per symbol
ExposureValue(pm, s) ==
  IF s \in DOMAIN pm.positions
     /\ pm.positions[s].quantity > 0 /\ pm.positions[s].current_price > 0
  THEN pm.positions[s].quantity * pm.positions[s].current_price * Mills
  ELSE 0

\* RiskManager._check_sector_exposure_limit
_check_sector_exposure_limit(rm, pm, signal, quantity) ==
  LET portfolio_value == _get_portfolio_value(pm)
      projected(s) ==
        IF s = signal.symbol /\ quantity > 0 /\ signal.price > 0
        THEN ExposureValue(pm, s) + quantity * signal.price * Mills
        ELSE ExposureValue(pm, s)
  IN /\ portfolio_value > 0
     /\ \/ signal.action = "SELL"
        \/ \A s \in (DOMAIN pm.positions) \cup {signal.symbol} :
             (ExposureValue(pm, s) > 0 \/ (s = signal.symbol /\ quantity > 0 /\ signal.price > 0))
               => projected(s) * 100 <= rm.risk_limits.max_sector_exposure * portfolio_value

\* RiskManager._check_volume_requirements
_check_volume_requirements(rm, signal) ==
  signal.volume = None \/ signal.volume >= rm.risk_limits.min_volume

\* the checks of validate_signal in the order of its source
ValidationChecks ==
  <<"_check_daily_trade_limit", "_check_daily_loss_limit", "calculate_position_size",
    "_check_correlation_limit", "_check_portfolio_risk_limit",
    "_check_sector_exposure_limit", "_check_volume_requirements">>

\* a validation that looks at the daily loss before the daily trade count
ValidateLossFirst(rm, pm, signal, t) ==
  LET rm1 == _reset_daily_counters_if_needed(rm, t)
      sized_qty == calculate_position_size(rm1, pm, signal)
      Reject(why, n) == [ok |-> FALSE, reason |-> why, rm |-> rm1,
                         quantity |-> IF n > 3 THEN sized_qty ELSE signal.quantity,
                         checks |-> SubSeq(ValidationChecks, 1, n)]
  IN IF ~_check_daily_loss_limit(rm1, pm) THEN Reject("daily loss limit reached", 2)
     ELSE IF ~_check_daily_trade_limit(rm1) THEN Reject("daily trade limit reached", 1)
     ELSE IF sized_qty <= 0 THEN Reject("position size too small", 3)
     ELSE IF ~_check_correlation_limit(rm1, pm, signal)
     THEN Reject("correlation limit exceeded", 4)
     ELSE IF ~_check_portfolio_risk_limit(rm1, pm, signal)
     THEN Reject("portfolio risk limit exceeded", 5)
     ELSE IF ~_check_sector_exposure_limit(rm1, pm, signal, sized_qty)
     THEN Reject("position concentration limit exceeded", 6)
     ELSE IF ~_check_volume_requirements(rm1, signal) THEN Reject("volume too low", 7)
     ELSE [ok |-> TRUE, reason |-> "", quantity |-> sized_qty, rm |-> rm1,
           checks |-> ValidationChecks]

\* RiskManager.validate_signal: (ok, reason), the quantity it leaves in the
\* signal, the RiskManager it leaves (the daily reset may have fired) and the
\* checks it evaluated
validate_signal(rm, pm, signal, t) ==
  LET rm1 == _reset_daily_counters_if_needed(rm, t)
      sized_qty == calculate_position_size(rm1, pm, signal)
      Reject(why, n) == [ok |-> FALSE, reason |-> why, rm |-> rm1,
                         quantity |-> IF n > 3 THEN sized_qty ELSE signal.quantity,
                         checks |-> SubSeq(ValidationChecks, 1, n)]
  IN IF ~_check_daily_trade_limit(rm1) THEN Reject("daily trade limit reached", 1)
     ELSE IF ~_check_daily_loss_limit(rm1, pm) THEN Reject("daily loss limit reached", 2)
     ELSE IF sized_qty <= 0 THEN Reject("position size too small", 3)
     ELSE IF ~_check_correlation_limit(rm1, pm, signal)
     THEN Reject("correlation limit exceeded", 4)
     ELSE IF ~_check_portfolio_risk_limit(rm1, pm, signal)
     THEN Reject("portfolio risk limit exceeded", 5)
     ELSE IF ~_check_sector_exposure_limit(rm1, pm, signal, sized_qty)
     THEN Reject("position concentration limit exceeded", 6)
     ELSE IF ~_check_volume_requirements(rm1, signal) THEN Reject("volume too low", 7)
     ELSE [ok |-> TRUE, reason |-> "", quantity |-> sized_qty, rm |-> rm1,
           checks |-> ValidationChecks]

(* ========================= TradingEngine ========================= *)

\* The settings the engine reads on every use (app.core.config.Settings):
\* ratios in hundredths, edges in basis points, confidences in percent.
Settings ==
  [MAX_SIGNALS_PER_CYCLE |-> MAX_SIGNALS_PER_CYCLE,
   MIN_SIGNAL_CONFIDENCE |-> MIN_SIGNAL_CONFIDENCE,
   CONFLICT_STRENGTH_RATIO |-> CONFLICT_STRENGTH_RATIO,
   SIGNAL_COOLDOWN_SECONDS |-> SIGNAL_COOLDOWN_SECONDS,
   MIN_HOLD_SECONDS |-> MIN_HOLD_SECONDS,
   MAX_TRADES_PER_HOUR |-> MAX_TRADES_PER_HOUR,
   FIXED_TRADE_NOTIONAL_USD |-> FIXED_TRADE_NOTIONAL_USD,
   SOLANA_EXECUTOR_MAX_RETRIES |-> SOLANA_EXECUTOR_MAX_RETRIES,
   MAX_BUY_NOTIONAL_USD |-> MAX_BUY_NOTIONAL_USD,
   ADVANCED_ENTRY_FILTER_ENABLED |-> TRUE]

\* _return_stats of a signal without usable history (fewer than 3 closes)
NoStats == [present |-> FALSE, std |-> 0, count |-> 0, trend_z |-> 0]

\* TradingSignal.  confidence is in percent; correlated, volume and stats are
\* what the metadata the signal carries amounts to: whether its closes
\* correlate beyond max_correlation with an open position's, metadata["volume"],
\* and _return_stats(_extract_closes(signal)) (std in basis points, trend_z in
\* hundredths).
TradingSignal(symbol, action, confidence, price, quantity, stop_loss, take_profit, strategy) ==
  [symbol |-> symbol, action |-> action, confidence |-> confidence, price |-> price,
   quantity |-> quantity, stop_loss |-> stop_loss, take_profit |-> take_profit,
   strategy |-> strategy, correlated |-> FALSE, volume |-> None, stats |-> NoStats]

\* NotificationService.send_alert (send_trade_notification and send_risk_alert
\* end in it): every Exception of the delivery is caught and reported as False,
\* so the call leaves a title and a boolean and never raises
send_alert(title, sent) == [title |-> title, sent |-> sent]

NoAlert == [title |-> "", sent |-> FALSE]

\* an event log that keeps no message
AddEventNoMessage(events, event_type, symbol, strategy, message) ==
  LET grown == <<[type |-> event_type, symbol |-> symbol, strategy |-> strategy,
                  message |-> ""]>> \o events
  IN IF Len(grown) > RecentEventsMaxLen THEN SubSeq(grown, 1, RecentEventsMaxLen) ELSE grown

\* a ring that, when full, gives up its most recent event instead of the oldest
AddEventDropsNewest(events, event_type, symbol, strategy, message) ==
  LET e == [type |-> event_type, symbol |-> symbol, strategy |-> strategy,
            message |-> message]
  IN IF Len(events) >= RecentEventsMaxLen THEN <<e>> \o Tail(events) ELSE <<e>> \o events

\* TradingEngine._add_event on deque(maxlen=50): appendleft drops the oldest
_add_event(events, event_type, symbol, strategy, message) ==
  LET grown == <<[type |-> event_type, symbol |-> symbol, strategy |-> strategy,
                  message |-> message]>> \o events
  IN IF Len(grown) > RecentEventsMaxLen THEN SubSeq(grown, 1, RecentEventsMaxLen) ELSE grown

\* TradingEngine._passes_cooldown
_passes_cooldown(lta, symbol, t, strategy) ==
  \/ strategy = "risk_exit"
  \/ lta[symbol] = None
  \/ t - lta[symbol] >= settings.SIGNAL_COOLDOWN_SECONDS

\* position rules without the minimum hold
PositionRulesNoHold(pm, signal, t) ==
  LET has_position == signal.symbol \in DOMAIN pm.positions
                        /\ pm.positions[signal.symbol].quantity > 0
  IN IF signal.action = "SELL" THEN has_position
     ELSE IF signal.action = "BUY" THEN ~has_position
     ELSE TRUE

\* position rules that forget the BUY side
PositionRulesSellOnly(pm, signal, t) ==
  signal.action = "SELL" =>
    /\ signal.symbol \in DOMAIN pm.positions
    /\ pm.positions[signal.symbol].quantity > 0
    /\ \/ signal.strategy = "risk_exit"
       \/ pm.positions[signal.symbol].opened_at = None
       \/ t - pm.positions[signal.symbol].opened_at >= settings.MIN_HOLD_SECONDS

\* TradingEngine._passes_position_rules
_passes_position_rules(pm, signal, t) ==
  LET has_position == signal.symbol \in DOMAIN pm.positions
                        /\ pm.positions[signal.symbol].quantity > 0
  IN IF signal.action = "SELL"
     THEN /\ has_position
          /\ \/ signal.strategy = "risk_exit"
             \/ pm.positions[signal.symbol].opened_at = None
             \/ t - pm.positions[signal.symbol].opened_at >= settings.MIN_HOLD_SECONDS
     ELSE IF signal.action = "BUY" THEN ~has_position
     ELSE TRUE

RECURSIVE DropExpired(_, _)
DropExpired(tts, cutoff) ==
  IF tts # <<>> /\ Head(tts) < cutoff THEN DropExpired(Tail(tts), cutoff) ELSE tts

\* a rate limit that never forgets a trade
HourlyLimitNoPrune(tts, signal, t) ==
  IF signal.strategy = "risk_exit" THEN [ok |-> TRUE, tts |-> tts]
  ELSE [ok |-> Len(tts) < Max(settings.MAX_TRADES_PER_HOUR, 1), tts |-> tts]

\* TradingEngine._passes_hourly_trade_limit: the verdict and the pruned window
_passes_hourly_trade_limit(tts, signal, t) ==
  IF signal.strategy = "risk_exit" THEN [ok |-> TRUE, tts |-> tts]
  ELSE LET max_per_hour == Max(settings.MAX_TRADES_PER_HOUR, 1)
           pruned == DropExpired(tts, t - HourTicks)
       IN [ok |-> Len(pruned) < max_per_hour, tts |-> pruned]

\* TradingEngine._strategy_weight, in thousandths
_strategy_weight(perf, strategy_name) ==
  IF strategy_name \notin DOMAIN perf THEN 1000
  ELSE IF perf[strategy_name].total_trades < 5 THEN 1000
  ELSE LET base == 700 + (perf[strategy_name].winning_trades * 600)
                           \div perf[strategy_name].total_trades
           pnl_adj == IF perf[strategy_name].total_pnl > 0 THEN 150 ELSE -150
       IN Min(Max(base + pnl_adj, 500), 1500)

\* TradingEngine._expected_reward_ratio and _risk_ratio, as numerators over price
RewardDistance(signal) ==
  IF signal.price <= 0 \/ signal.take_profit = None THEN 0
  ELSE Abs(signal.take_profit - signal.price)
RiskDistance(signal) ==
  IF signal.price <= 0 \/ signal.stop_loss = None THEN 0
  ELSE Abs(signal.price - signal.stop_loss)

\* TradingEngine._signal_priority as the fraction num / den:
\* confidence * weight * (1 + expected_reward) * clamp(rr_ratio, 0.5, 3.0)
_signal_priority(perf, signal) ==
  LET a == RewardDistance(signal)
      b == RiskDistance(signal)
      rr == IF b <= 0 \/ 2 * a < b THEN [num |-> 1, den |-> 2]
            ELSE IF a > 3 * b THEN [num |-> 3, den |-> 1]
            ELSE [num |-> a, den |-> b]
      p == IF signal.price > 0 THEN signal.price ELSE 1
  IN [num |-> signal.confidence * _strategy_weight(perf, signal.strategy) * (p + a) * rr.num,
      den |-> p * rr.den]

PriorityGreater(perf, x, y) ==
  _signal_priority(perf, x).num * _signal_priority(perf, y).den
    > _signal_priority(perf, y).num * _signal_priority(perf, x).den

\* list.sort(key=_signal_priority, reverse=True): stable, highest first
RECURSIVE InsertByPriority(_, _, _)
InsertByPriority(perf, sorted, x) ==
  IF sorted = <<>> THEN <<x>>
  ELSE IF PriorityGreater(perf, x, Head(sorted)) THEN <<x>> \o sorted
  ELSE <<Head(sorted)>> \o InsertByPriority(perf, Tail(sorted), x)

RECURSIVE SortByPriority(_, _)
SortByPriority(perf, seq) ==
  IF seq = <<>> THEN <<>>
  ELSE InsertByPriority(perf, SortByPriority(perf, SubSeq(seq, 1, Len(seq) - 1)), seq[Len(seq)])

(* ---------------- signal consolidation ---------------- *)

\* the signals _consolidate_signals accumulates: BUY or SELL, outside cooldown
Considered(sigs, lta, t) ==
  SelectSeq(sigs, LAMBDA sg : sg.action \in {"BUY", "SELL"}
                              /\ _passes_cooldown(lta, sg.symbol, t, sg.strategy))

\* the keys of by_symbol in insertion order
RECURSIVE FirstSeen(_, _)
FirstSeen(sigs, seen) ==
  IF sigs = <<>> THEN <<>>
  ELSE IF Head(sigs).symbol \in seen THEN FirstSeen(Tail(sigs), seen)
  ELSE <<Head(sigs).symbol>> \o FirstSeen(Tail(sigs), seen \cup {Head(sigs).symbol})

\* entry["buy_strength"] / entry["sell_strength"]: sum of confidence * weight
RECURSIVE Strength(_, _, _, _)
Strength(sigs, perf, symbol, action) ==
  IF sigs = <<>> THEN 0
  ELSE (IF Head(sigs).symbol = symbol /\ Head(sigs).action = action
        THEN Head(sigs).confidence * _strategy_weight(perf, Head(sigs).strategy)
        ELSE 0)
       + Strength(Tail(sigs), perf, symbol, action)

\* entry["best_buy"] / entry["best_sell"]: the first signal of highest confidence
Best(sigs, symbol, action) ==
  LET side == {i \in DOMAIN sigs : sigs[i].symbol = symbol /\ sigs[i].action = action}
      k == CHOOSE i \in side :
             \A j \in side : /\ sigs[j].confidence <= sigs[i].confidence
                             /\ (j < i => sigs[j].confidence < sigs[i].confidence)
  IN sigs[k]

\* a resolution that lets the stronger side win whatever the ratio
ResolveNoRatio(sigs, perf, pm, symbol, t) ==
  LET buy_strength == Strength(sigs, perf, symbol, "BUY")
      sell_strength == Strength(sigs, perf, symbol, "SELL")
      side == IF buy_strength >= sell_strength THEN "BUY" ELSE "SELL"
  IN IF buy_strength <= 0 /\ sell_strength <= 0 THEN [kind |-> "none"]
     ELSE LET selected == Best(sigs, symbol, side)
          IN IF selected.confidence < settings.MIN_SIGNAL_CONFIDENCE
                \/ ~_passes_position_rules(pm, selected, t)
             THEN [kind |-> "dropped"]
             ELSE [kind |-> "selected", signal |-> selected]

\* the second loop of _consolidate_signals for one symbol
Resolve(sigs, perf, pm, symbol, t) ==
  LET buy_strength == Strength(sigs, perf, symbol, "BUY")
      sell_strength == Strength(sigs, perf, symbol, "SELL")
      ratio == settings.CONFLICT_STRENGTH_RATIO
      side == IF buy_strength > 0 /\ sell_strength > 0
              THEN IF buy_strength * 100 >= sell_strength * ratio THEN "BUY"
                   ELSE IF sell_strength * 100 >= buy_strength * ratio THEN "SELL"
                   ELSE "conflict"
              ELSE IF buy_strength > 0 THEN "BUY"
              ELSE IF sell_strength > 0 THEN "SELL"
              ELSE "none"
  IN IF side \in {"conflict", "none"} THEN [kind |-> side]
     ELSE LET selected == Best(sigs, symbol, side)
          IN IF selected.confidence < settings.MIN_SIGNAL_CONFIDENCE
                \/ ~_passes_position_rules(pm, selected, t)
             THEN [kind |-> "dropped"]
             ELSE [kind |-> "selected", signal |-> selected]

RECURSIVE Selected(_, _, _, _, _)
Selected(symbols, sigs, perf, pm, t) ==
  IF symbols = <<>> THEN <<>>
  ELSE LET r == Resolve(sigs, perf, pm, Head(symbols), t)
       IN (IF r.kind = "selected" THEN <<r.signal>> ELSE <<>>)
          \o Selected(Tail(symbols), sigs, perf, pm, t)

RECURSIVE ConflictEvents(_, _, _, _, _, _)
ConflictEvents(events, symbols, sigs, perf, pm, t) ==
  IF symbols = <<>> THEN events
  ELSE ConflictEvents(
         IF Resolve(sigs, perf, pm, Head(symbols), t).kind = "conflict"
         THEN _add_event(events, "signal_conflict", Head(symbols), "consensus",
                         "conflicting signals dropped")
         ELSE events,
         Tail(symbols), sigs, perf, pm, t)

\* a consolidation that never truncates
NoSignalCap == Cardinality(Symbols)

\* consolidated[:max(int(settings.MAX_SIGNALS_PER_CYCLE), 1)]
SignalCap == Max(settings.MAX_SIGNALS_PER_CYCLE, 1)

\* TradingEngine._consolidate_signals: the returned list
_consolidate_signals(sigs, lta, pm, perf, t) ==
  LET considered == Considered(sigs, lta, t)
      ranked == SortByPriority(perf,
                  Selected(FirstSeen(considered, {}), considered, perf, pm, t))
  IN SubSeq(ranked, 1, Min(Len(ranked), SignalCap))

\* TradingEngine._consolidate_signals: recent_events after its conflict events
ConsolidationEvents(events, sigs, lta, pm, perf, t) ==
  LET considered == Considered(sigs, lta, t)
  IN ConflictEvents(events, FirstSeen(considered, {}), considered, perf, pm, t)

(* ---------------- edge filter and execution ---------------- *)

\* _passes_edge_filter without its risk_exit bypass
EdgeFilterForAll(signal) ==
  /\ signal.price > 0
  /\ RewardDistance(signal) > 0
  /\ RiskDistance(signal) > 0

\* an adaptive filter whose reward floor forgets the volatility of the history
EdgeFilterNoVolatility(signal) ==
  IF signal.strategy = "risk_exit" THEN TRUE
  ELSE IF signal.price <= 0 THEN FALSE
  ELSE LET a == RewardDistance(signal)
           b == RiskDistance(signal)
       IN IF a <= 0 \/ b <= 0 THEN FALSE
          ELSE /\ a * 10000 >= ENTRY_FILTER_MIN_EXPECTED_EDGE * signal.price
               /\ a * 100 >= ENTRY_FILTER_MIN_RR * b

\* TradingEngine._passes_edge_filter
_passes_edge_filter(signal) ==
  IF signal.strategy = "risk_exit" THEN TRUE
  ELSE IF signal.price <= 0 THEN FALSE
  ELSE LET a == RewardDistance(signal)
           b == RiskDistance(signal)
           vol == IF signal.stats.present THEN signal.stats.std ELSE 0
           \* min_reward in hundredths of a basis point
           min_reward == Max(ENTRY_FILTER_MIN_EXPECTED_EDGE * 100,
                             (ENTRY_FILTER_FEE_BPS_PER_SIDE * 2 + ENTRY_FILTER_SLIPPAGE_BPS) * 100
                               + vol * ENTRY_FILTER_VOL_MULTIPLIER)
           \* reward/risk floors in ten-thousandths
           floor0 == Max(ENTRY_FILTER_MIN_RR * 100, 10000 + Min(10000, vol * 8))
           configured_rr == (TAKE_PROFIT_PERCENTAGE * 10000) \div STOP_LOSS_PERCENTAGE
           rr_floor == IF configured_rr < floor0
                       THEN Max((configured_rr * 9) \div 10, 500) ELSE floor0
       IN IF a <= 0 \/ b <= 0 THEN FALSE
          ELSE IF ~settings.ADVANCED_ENTRY_FILTER_ENABLED
          THEN /\ a * 10000 >= ENTRY_FILTER_MIN_EXPECTED_EDGE * signal.price
               /\ a * 100 >= ENTRY_FILTER_MIN_RR * b
          ELSE /\ a * 1000000 >= min_reward * signal.price
               /\ a * 10000 >= rr_floor * b
               /\ (signal.stats.present /\ signal.stats.count >= ENTRY_FILTER_MIN_HISTORY)
                    => /\ signal.action = "BUY" => signal.stats.trend_z >= ENTRY_FILTER_TREND_Z_MIN
                       /\ signal.action = "SELL" => signal.stats.trend_z <= -ENTRY_FILTER_TREND_Z_MIN

\* an execution that forgets the edge filter
ExecuteTradeUnfiltered(pm, rm, tts, ords, signal, t) ==
  LET trade_data == [symbol |-> signal.symbol, side |-> signal.action,
                     quantity |-> signal.quantity, price |-> signal.price,
                     strategy |-> signal.strategy, stop_loss |-> signal.stop_loss,
                     take_profit |-> signal.take_profit]
      done == execute_trade(pm, trade_data, t)
  IN [tr |-> done.tr, pm |-> done.pm,
      tts |-> IF done.tr.ok THEN Append(tts, t) ELSE tts,
      orders |-> Append(ords, trade_data),
      calls |-> <<"execute_trade">>]

\* an execution that forgets the hard cap on the notional of a BUY
ExecuteTradeUncapped(pm, rm, tts, ords, signal, t) ==
  LET position_size == IF signal.quantity # None THEN signal.quantity
                       ELSE calculate_position_size(rm, pm, signal)
      trade_data == [symbol |-> signal.symbol, side |-> signal.action,
                     quantity |-> position_size, price |-> signal.price,
                     strategy |-> signal.strategy, stop_loss |-> signal.stop_loss,
                     take_profit |-> signal.take_profit]
      done == execute_trade(pm, trade_data, t)
  IN IF ~_passes_edge_filter(signal) \/ position_size <= 0
     THEN [tr |-> NoTrade, pm |-> pm, tts |-> tts, orders |-> ords,
           calls |-> <<"_passes_edge_filter">>]
     ELSE [tr |-> done.tr, pm |-> done.pm,
           tts |-> IF done.tr.ok THEN Append(tts, t) ELSE tts,
           orders |-> Append(ords, trade_data),
           calls |-> <<"_passes_edge_filter", "execute_trade">>]

\* TradingEngine._execute_trade: the trade_result (or NoTrade), the portfolio,
\* the rate-limit window and the orders handed to the PortfolioManager
_execute_trade(pm, rm, tts, ords, signal, t) ==
  LET size0 == IF signal.quantity # None THEN signal.quantity
               ELSE calculate_position_size(rm, pm, signal)
      position_size ==
        IF signal.action = "BUY" /\ signal.price > 0 /\ settings.MAX_BUY_NOTIONAL_USD > 0
        THEN Min(size0, settings.MAX_BUY_NOTIONAL_USD \div signal.price)
        ELSE size0
      trade_data == [symbol |-> signal.symbol, side |-> signal.action,
                     quantity |-> position_size, price |-> signal.price,
                     strategy |-> signal.strategy, stop_loss |-> signal.stop_loss,
                     take_profit |-> signal.take_profit]
      done == execute_trade(pm, trade_data, t)
  IN IF ~_passes_edge_filter(signal) \/ position_size <= 0
     THEN [tr |-> NoTrade, pm |-> pm, tts |-> tts, orders |-> ords,
           calls |-> <<"_passes_edge_filter">>]
     ELSE [tr |-> done.tr, pm |-> done.pm,
           tts |-> IF done.tr.ok THEN Append(tts, t) ELSE tts,
           orders |-> Append(ords, trade_data),
           calls |-> <<"_passes_edge_filter", "execute_trade">>]

\* BaseStrategy.update_performance
update_performance(perf, strategy, trade_result) ==
  IF strategy \notin DOMAIN perf THEN perf
  ELSE [perf EXCEPT ![strategy] =
          [total_trades |-> @.total_trades + 1,
           winning_trades |-> @.winning_trades + (IF trade_result.pnl > 0 THEN 1 ELSE 0),
           total_pnl |-> @.total_pnl + trade_result.pnl]]

\* One pass of the loop body of TradingEngine._process_signals
ProcessSignal(signal, t, sent) ==
  LET hourly == _passes_hourly_trade_limit(trade_timestamps, signal, t)
      valid == validate_signal(risk_manager, portfolio_manager, signal, t)
      sized == [signal EXCEPT !.quantity = valid.quantity]
      ex == _execute_trade(portfolio_manager, valid.rm, hourly.tts, orders, sized, t)
  IN IF ~hourly.ok
     THEN /\ trade_timestamps' = hourly.tts
          /\ recent_events' = _add_event(recent_events, "rejected", signal.symbol,
                                         signal.strategy, "hourly trade limit reached")
          /\ calls' = <<"_passes_hourly_trade_limit">>
          /\ UNCHANGED <<portfolio_manager, risk_manager, strategies, last_trade_at, orders,
                         last_alert, trade_rows>>
     ELSE IF ~valid.ok
     THEN /\ trade_timestamps' = hourly.tts
          /\ risk_manager' = valid.rm
          /\ recent_events' = _add_event(recent_events, "rejected", signal.symbol,
                                         signal.strategy, valid.reason)
          /\ calls' = <<"_passes_hourly_trade_limit", "validate_signal">>
          /\ UNCHANGED <<portfolio_manager, strategies, last_trade_at, orders, last_alert,
                         trade_rows>>
     ELSE /\ trade_timestamps' = ex.tts
          /\ portfolio_manager' = ex.pm
          /\ orders' = ex.orders
          /\ trade_rows' = _record_trade_in_db(trade_rows, ex.tr, t)
          /\ calls' = <<"_passes_hourly_trade_limit", "validate_signal">> \o ex.calls
                        \o (IF ex.tr.ok THEN <<"record_trade">> ELSE <<>>)
          /\ IF ex.tr.ok
             THEN /\ last_alert' = send_alert("Trade Executed", sent)
                  /\ risk_manager' = record_trade(valid.rm, ex.pm, ex.tr)
                  /\ last_trade_at' = [last_trade_at EXCEPT ![signal.symbol] = t]
                  /\ strategies' = update_performance(strategies, signal.strategy, ex.tr)
                  /\ recent_events' = _add_event(recent_events, "trade", signal.symbol,
                                                 signal.strategy, "executed")
             ELSE /\ risk_manager' = valid.rm
                  /\ recent_events' = _add_event(recent_events, "rejected", signal.symbol,
                                                 signal.strategy, "execution rejected")
                  /\ UNCHANGED <<strategies, last_trade_at, last_alert>>

\* TradingEngine._process_exit_conditions: does the snapshot price trigger
\* the position's stop-loss or take-profit
ExitTriggered(pos, price) ==
  \/ pos.stop_loss # None /\ pos.stop_loss # 0 /\ price <= pos.stop_loss
  \/ pos.take_profit # None /\ pos.take_profit # 0 /\ price >= pos.take_profit

\* the exit_signal built for a triggered position
ExitSignal(symbol, pos, price) ==
  TradingSignal(symbol, "SELL", 100, price, pos.quantity, None, None, "risk_exit")

(* ---------------- inputs of a cycle ---------------- *)

\* What get_latest_data_for_symbols may return: per symbol a price, or None
\* for a symbol without snapshot.  A dictionary without any price is empty.
\* The first symbol moves over all of Prices, the second is quoted at one price.
MarketDatas ==
  { md \in [Symbols -> Prices \cup {None}] : md[DEFAULT_SYMBOLS[2]] \in {None, MinPrice + 1} }

IsEmpty(md) == \A s \in Symbols : md[s] = None

\* A signal a strategy may emit on the snapshot price: stop-loss one dollar
\* against the trade, take-profit two dollars in its favour.
StrategySignal(symbol, strategy, action, price) ==
  TradingSignal(symbol, action, 80, price, None,
                IF action = "BUY" THEN price - 1 ELSE price + 1,
                IF action = "BUY" THEN price + 2 ELSE price - 2, strategy)

\* A signal whose take-profit is as far from the price as its stop-loss: a
\* reward/risk of 1, below every floor of the edge filter
ThinSignal(symbol, strategy, action, price) ==
  TradingSignal(symbol, action, 80, price, None,
                IF action = "BUY" THEN price - 1 ELSE price + 1,
                IF action = "BUY" THEN price + 1 ELSE price - 1, strategy)

SignalChoices(md) ==
  { StrategySignal(s, g, a, md[s]) :
      s \in {x \in Symbols : md[x] # None}, g \in ENABLED_STRATEGIES, a \in {"BUY", "SELL"} }

\* What _generate_signals may return: up to MaxSignals signals, at most one
\* per strategy and symbol
GeneratedSignals(md) ==
  { q \in UNION { [1..n -> SignalChoices(md)] : n \in 0..MaxSignals } :
      \A i, j \in DOMAIN q :
         i # j => q[i].symbol # q[j].symbol \/ q[i].strategy # q[j].strategy }

\* list(self.portfolio_manager.positions.items()), in DEFAULT_SYMBOLS order
RECURSIVE Items(_, _)
Items(positions, i) ==
  IF i > Len(DEFAULT_SYMBOLS) THEN <<>>
  ELSE (IF DEFAULT_SYMBOLS[i] \in DOMAIN positions
        THEN <<[symbol |-> DEFAULT_SYMBOLS[i], pos |-> positions[DEFAULT_SYMBOLS[i]]]>>
        ELSE <<>>) \o Items(positions, i + 1)

NoResult == [ok |-> TRUE, reason |-> "none"]
NoData == [s \in Symbols |-> None]

Tasks == 1..MaxTasks
Suspended == {"created", "fetch_wait", "sleep_wait", "backoff_wait"}
Finished == {"done", "cancelled"}

\* the locals of a loop iteration go out of scope when the iteration ends
EndOfCycle ==
  /\ market_data' = NoData
  /\ history_ok' = TRUE
  /\ signals' = <<>>
  /\ pending' = <<>>
  /\ exit_items' = <<>>
  /\ orders' = <<>>
  /\ calls' = <<>>

(* ---------------- TradingEngine.start ---------------- *)

\* start() guards that let more states through
StartGuardNotRunning == state # "RUNNING"
StartGuardOrError == state \in {"STOPPED", "ERROR"}

\* the guard of start(): only a STOPPED engine starts
StartGuard == state = "STOPPED"

\* start() is called on a STOPPED engine: state = STARTING
StartCall ==
  /\ turn = "idle"
  /\ StartGuard
  /\ trading_task < MaxTasks
  /\ state' = "STARTING"
  /\ start_pc' = "initialize"
  /\ turn' = "start"
  /\ UNCHANGED <<is_running_flag, trading_task, task_pc, cancel_requested, wake_at,
                 stop_pc, ret, now, book_vars, cycle_vars, risk_result, settings, last_alert>>

\* start() is called in any other state: it logs a warning and returns
StartIgnored ==
  /\ turn = "idle"
  /\ ~StartGuard
  /\ ret' = [op |-> "start", outcome |-> "noop"]
  /\ UNCHANGED <<engine_vars, turn, start_pc, stop_pc, now, book_vars, cycle_vars,
                 risk_result, settings, last_alert>>

\* await self.portfolio_manager.initialize(): a no-op once initialized, else
\* it loads the portfolio and its positions from the database
StartInitialize ==
  /\ turn = "start" /\ start_pc = "initialize"
  /\ portfolio_manager' =
       IF portfolio_manager.initialized THEN portfolio_manager
       ELSE [initialized |-> TRUE, cash_balance |-> db_portfolio.cash_balance,
             total_value |-> db_portfolio.total_value, positions |-> db_portfolio.positions]
  /\ start_pc' = "create_task"
  /\ UNCHANGED <<engine_vars, turn, stop_pc, ret, now, db_portfolio, trade_rows, risk_manager,
                 strategies, recent_events, last_trade_at, trade_timestamps, cycle_vars,
                 risk_result, settings, last_alert>>

\* initialize() raises (the database is unreachable): control goes to the
\* except clause of start()
StartInitializeFails ==
  /\ turn = "start" /\ start_pc = "initialize"
  /\ ~portfolio_manager.initialized
  /\ start_pc' = "except"
  /\ UNCHANGED <<engine_vars, turn, stop_pc, ret, now, book_vars, cycle_vars,
                 risk_result, settings, last_alert>>

\* self.is_running_flag = True; self.trading_task = asyncio.create_task(...)
StartCreateTask ==
  /\ turn = "start" /\ start_pc = "create_task"
  /\ is_running_flag' = TRUE
  /\ trading_task' = trading_task + 1
  /\ task_pc' = [task_pc EXCEPT ![trading_task + 1] = "created"]
  /\ start_pc' = "set_running"
  /\ UNCHANGED <<state, cancel_requested, wake_at, turn, stop_pc, ret, now, book_vars,
                 cycle_vars, risk_result, settings, last_alert>>

\* self.state = TradingState.RUNNING
StartRunning ==
  /\ turn = "start" /\ start_pc = "set_running"
  /\ state' = "RUNNING"
  /\ start_pc' = "send_alert"
  /\ UNCHANGED <<is_running_flag, trading_task, task_pc, cancel_requested, wake_at, turn,
                 stop_pc, ret, now, book_vars, cycle_vars, risk_result, settings, last_alert>>

\* await send_alert("Trading Engine Started", ...): the service reports a
\* failure by its boolean, which start() drops; start() returns
StartAlert ==
  /\ turn = "start" /\ start_pc = "send_alert"
  /\ \E sent \in BOOLEAN : last_alert' = send_alert("Trading Engine Started", sent)
  /\ start_pc' = "idle"
  /\ turn' = "idle"
  /\ ret' = [op |-> "start", outcome |-> "ok"]
  /\ UNCHANGED <<engine_vars, stop_pc, now, book_vars, cycle_vars, risk_result, settings>>

\* an except clause that swallows the failure and leaves the engine STOPPED
StartExceptSwallowed ==
  /\ turn = "start" /\ start_pc = "except"
  /\ state' = "STOPPED"
  /\ start_pc' = "idle"
  /\ turn' = "idle"
  /\ ret' = [op |-> "start", outcome |-> "ok"]
  /\ UNCHANGED <<is_running_flag, trading_task, task_pc, cancel_requested, wake_at,
                 stop_pc, now, book_vars, cycle_vars, risk_result, settings, last_alert>>

\* except Exception: self.state = TradingState.ERROR; raise
StartExcept ==
  /\ turn = "start" /\ start_pc = "except"
  /\ state' = "ERROR"
  /\ start_pc' = "idle"
  /\ turn' = "idle"
  /\ ret' = [op |-> "start", outcome |-> "raised"]
  /\ UNCHANGED <<is_running_flag, trading_task, task_pc, cancel_requested, wake_at,
                 stop_pc, now, book_vars, cycle_vars, risk_result, settings, last_alert>>

(* ---------------- TradingEngine.stop ---------------- *)

\* a stop() guard that also stops an engine in ERROR
StopGuardOrError == state \in {"RUNNING", "ERROR"}

\* the guard of stop(): only a RUNNING engine stops
StopGuard == state = "RUNNING"

\* stop() is called on a RUNNING engine: state = STOPPING
StopCall ==
  /\ turn = "idle"
  /\ StopGuard
  /\ state' = "STOPPING"
  /\ stop_pc' = "set_flag"
  /\ turn' = "stop"
  /\ UNCHANGED <<is_running_flag, trading_task, task_pc, cancel_requested, wake_at,
                 start_pc, ret, now, book_vars, cycle_vars, risk_result, settings, last_alert>>

\* stop() is called in any other state: it logs a warning and returns
StopIgnored ==
  /\ turn = "idle"
  /\ ~StopGuard
  /\ ret' = [op |-> "stop", outcome |-> "noop"]
  /\ UNCHANGED <<engine_vars, turn, start_pc, stop_pc, now, book_vars, cycle_vars,
                 risk_result, settings, last_alert>>

\* Task.cancel(): a finished task ignores it
Cancel(requested, id) ==
  IF id # 0 /\ task_pc[id] \notin Finished THEN [requested EXCEPT ![id] = TRUE]
  ELSE requested

\* self.is_running_flag = False; self.trading_task.cancel(); await
\* self.trading_task: stop() suspends unless the task has finished already
StopCancel ==
  /\ turn = "stop" /\ stop_pc = "set_flag"
  /\ is_running_flag' = FALSE
  /\ cancel_requested' = Cancel(cancel_requested, trading_task)
  /\ IF trading_task = 0 \/ task_pc[trading_task] \in Finished
     THEN stop_pc' = "set_stopped" /\ UNCHANGED turn
     ELSE stop_pc' = "await" /\ turn' = "idle"
  /\ UNCHANGED <<state, trading_task, task_pc, wake_at, start_pc, ret, now, book_vars,
                 cycle_vars, risk_result, settings, last_alert>>

\* a stop() that goes on without waiting for the task to finish
StopResumeAtOnce ==
  /\ turn = "idle" /\ stop_pc = "await"
  /\ stop_pc' = "set_stopped"
  /\ turn' = "stop"
  /\ UNCHANGED <<engine_vars, start_pc, ret, now, book_vars, cycle_vars, risk_result,
                 settings, last_alert>>

\* the awaited task has finished: stop() resumes
StopResume ==
  /\ turn = "idle" /\ stop_pc = "await"
  /\ task_pc[trading_task] \in Finished
  /\ stop_pc' = "set_stopped"
  /\ turn' = "stop"
  /\ UNCHANGED <<engine_vars, start_pc, ret, now, book_vars, cycle_vars, risk_result,
                 settings, last_alert>>

\* self.state = TradingState.STOPPED; await send_alert(...); stop() returns
StopStopped ==
  /\ turn = "stop" /\ stop_pc = "set_stopped"
  /\ state' = "STOPPED"
  /\ stop_pc' = "idle"
  /\ turn' = "idle"
  /\ ret' = [op |-> "stop", outcome |-> "ok"]
  /\ \E sent \in BOOLEAN : last_alert' = send_alert("Trading Engine Stopped", sent)
  /\ UNCHANGED <<is_running_flag, trading_task, task_pc, cancel_requested, wake_at,
                 start_pc, now, book_vars, cycle_vars, risk_result, settings>>

(* ---------------- TradingEngine._trading_loop ---------------- *)

\* while self.is_running_flag: the task suspends in the data fetch, or leaves
\* the loop and finishes
LoopTop(id) == IF is_running_flag THEN "fetch_wait" ELSE "done"

\* the event loop runs the new task up to its first suspension
LoopStart(id) ==
  /\ turn = "idle" /\ task_pc[id] = "created" /\ ~cancel_requested[id]
  /\ task_pc' = [task_pc EXCEPT ![id] = LoopTop(id)]
  /\ UNCHANGED <<state, is_running_flag, trading_task, cancel_requested, wake_at, turn,
                 call_vars, now, book_vars, cycle_vars, risk_result, settings, last_alert>>

\* CancelledError is delivered where the task is suspended; it is not an
\* Exception, so the except clause of the loop lets it through
LoopCancelled(id) ==
  /\ turn = "idle" /\ task_pc[id] \in Suspended /\ cancel_requested[id]
  /\ task_pc' = [task_pc EXCEPT ![id] = "cancelled"]
  /\ cancel_requested' = [cancel_requested EXCEPT ![id] = FALSE]
  /\ UNCHANGED <<state, is_running_flag, trading_task, wake_at, turn, call_vars, now,
                 book_vars, cycle_vars, risk_result, settings, last_alert>>

\* a loop without except clause: the failed fetch ends the task
LoopFetchFailsFatal(id) ==
  /\ turn = "idle" /\ task_pc[id] = "fetch_wait" /\ ~cancel_requested[id]
  /\ task_pc' = [task_pc EXCEPT ![id] = "done"]
  /\ UNCHANGED <<state, is_running_flag, trading_task, cancel_requested, wake_at, turn,
                 call_vars, now, book_vars, cycle_vars, risk_result, settings, last_alert>>

\* the data fetch raises: logged, then await asyncio.sleep(30)
LoopFetchFails(id) ==
  /\ turn = "idle" /\ task_pc[id] = "fetch_wait" /\ ~cancel_requested[id]
  /\ task_pc' = [task_pc EXCEPT ![id] = "backoff_wait"]
  /\ wake_at' = [wake_at EXCEPT ![id] = now + BackoffTicks]
  /\ UNCHANGED <<state, is_running_flag, trading_task, cancel_requested, turn, call_vars,
                 now, book_vars, cycle_vars, risk_result, settings, last_alert>>

\* if not market_data: await asyncio.sleep(DATA_UPDATE_INTERVAL); continue
LoopFetchEmpty(id) ==
  /\ turn = "idle" /\ task_pc[id] = "fetch_wait" /\ ~cancel_requested[id]
  /\ task_pc' = [task_pc EXCEPT ![id] = "sleep_wait"]
  /\ wake_at' = [wake_at EXCEPT ![id] = now + DATA_UPDATE_INTERVAL]
  /\ UNCHANGED <<state, is_running_flag, trading_task, cancel_requested, turn, call_vars,
                 now, book_vars, cycle_vars, risk_result, settings, last_alert>>

\* the data fetch returns a snapshot: the cycle runs on it
LoopFetchData(id) ==
  /\ turn = "idle" /\ task_pc[id] = "fetch_wait" /\ ~cancel_requested[id]
  /\ \E md \in MarketDatas, ok \in BOOLEAN :
       /\ ~IsEmpty(md)
       /\ market_data' = md
       /\ history_ok' = ok
  /\ task_pc' = [task_pc EXCEPT ![id] = "generate"]
  /\ turn' = "loop"
  /\ risk_result' = NoResult
  /\ UNCHANGED <<state, is_running_flag, trading_task, cancel_requested, wake_at,
                 call_vars, now, book_vars, signals, pending, exit_items, orders, calls, settings,
                 last_alert>>

\* _generate_signals raises on a history row without numeric close: the
\* except clause of the loop ends the cycle, then await asyncio.sleep(30)
LoopGenerateFails(id) ==
  /\ turn = "loop" /\ task_pc[id] = "generate" /\ ~history_ok
  /\ task_pc' = [task_pc EXCEPT ![id] = "backoff_wait"]
  /\ wake_at' = [wake_at EXCEPT ![id] = now + BackoffTicks]
  /\ turn' = "idle"
  /\ EndOfCycle
  /\ UNCHANGED <<state, is_running_flag, trading_task, cancel_requested, call_vars, now,
                 book_vars, risk_result, settings, last_alert>>

\* _generate_signals returns; _process_signals consolidates what it returned
LoopGenerate(id) ==
  /\ turn = "loop" /\ task_pc[id] = "generate" /\ history_ok
  /\ \E sigs \in GeneratedSignals(market_data) :
       /\ signals' = sigs
       /\ pending' = _consolidate_signals(sigs, last_trade_at, portfolio_manager,
                                          strategies, now)
       /\ recent_events' = ConsolidationEvents(recent_events, sigs, last_trade_at,
                                               portfolio_manager, strategies, now)
  /\ task_pc' = [task_pc EXCEPT ![id] = "process"]
  /\ UNCHANGED <<state, is_running_flag, trading_task, cancel_requested, wake_at, turn,
                 call_vars, now, db_portfolio, trade_rows, portfolio_manager, risk_manager, strategies,
                 last_trade_at, trade_timestamps, market_data, history_ok, exit_items,
                 orders, calls, risk_result, settings, last_alert>>

\* for signal in consolidated_signals: one pass of the body
LoopProcessSignal(id) ==
  /\ turn = "loop" /\ task_pc[id] = "process" /\ pending # <<>>
  /\ \E sent \in BOOLEAN : ProcessSignal(Head(pending), now, sent)
  /\ pending' = Tail(pending)
  /\ UNCHANGED <<engine_vars, turn, call_vars, now, db_portfolio, market_data, history_ok,
                 signals, exit_items, risk_result, settings>>

\* _process_exit_conditions starts: it snapshots the open positions
LoopSweepStart(id) ==
  /\ turn = "loop" /\ task_pc[id] = "process" /\ pending = <<>>
  /\ exit_items' = Items(portfolio_manager.positions, 1)
  /\ task_pc' = [task_pc EXCEPT ![id] = "exits"]
  /\ UNCHANGED <<state, is_running_flag, trading_task, cancel_requested, wake_at, turn,
                 call_vars, now, book_vars, market_data, history_ok, signals, pending,
                 orders, calls, risk_result, settings, last_alert>>

\* for symbol, pos in list(positions.items()): one pass of the body
LoopExit(id) ==
  /\ turn = "loop" /\ task_pc[id] = "exits" /\ exit_items # <<>>
  /\ LET item == Head(exit_items)
         price == market_data[item.symbol]
         ex == _execute_trade(portfolio_manager, risk_manager, trade_timestamps, orders,
                              ExitSignal(item.symbol, item.pos, price), now)
     IN IF price # None /\ ExitTriggered(item.pos, price)
        THEN /\ portfolio_manager' = ex.pm
             /\ trade_timestamps' = ex.tts
             /\ orders' = ex.orders
             /\ trade_rows' = _record_trade_in_db(trade_rows, ex.tr, now)
        ELSE UNCHANGED <<portfolio_manager, trade_timestamps, orders, trade_rows>>
  /\ exit_items' = Tail(exit_items)
  /\ UNCHANGED <<engine_vars, turn, call_vars, now, db_portfolio, risk_manager, strategies,
                 recent_events, last_trade_at, market_data, history_ok, signals, pending,
                 calls, risk_result, settings, last_alert>>

\* await self.portfolio_manager.update_portfolio(market_data)
LoopUpdate(id) ==
  /\ turn = "loop" /\ task_pc[id] = "exits" /\ exit_items = <<>>
  /\ portfolio_manager' = update_portfolio(portfolio_manager, market_data)
  /\ task_pc' = [task_pc EXCEPT ![id] = "risk"]
  /\ UNCHANGED <<state, is_running_flag, trading_task, cancel_requested, wake_at, turn,
                 call_vars, now, db_portfolio, trade_rows, risk_manager, strategies, recent_events,
                 last_trade_at, trade_timestamps, cycle_vars, risk_result, settings, last_alert>>

\* risk_ok, risk_reason = await self.risk_manager.check_risk_limits(); when
\* ok, await asyncio.sleep(DATA_UPDATE_INTERVAL)
LoopRiskCheck(id) ==
  /\ turn = "loop" /\ task_pc[id] = "risk"
  /\ LET res == check_risk_limits(risk_manager, portfolio_manager, now)
     IN /\ risk_manager' = res.rm
        /\ risk_result' = [ok |-> res.ok, reason |-> res.reason]
        /\ IF res.ok
           THEN /\ task_pc' = [task_pc EXCEPT ![id] = "sleep_wait"]
                /\ wake_at' = [wake_at EXCEPT ![id] = now + DATA_UPDATE_INTERVAL]
                /\ turn' = "idle"
                /\ EndOfCycle
           ELSE /\ task_pc' = [task_pc EXCEPT ![id] = "halt"]
                /\ UNCHANGED <<wake_at, turn, cycle_vars>>
  /\ UNCHANGED <<state, is_running_flag, trading_task, cancel_requested, call_vars, now,
                 db_portfolio, trade_rows, portfolio_manager, strategies, recent_events, last_trade_at,
                 trade_timestamps, settings, last_alert>>
\* a loop that only reports the breach and sleeps on to the next cycle
LoopHaltIgnored(id) ==
  /\ turn = "loop" /\ task_pc[id] = "halt"
  /\ task_pc' = [task_pc EXCEPT ![id] = "sleep_wait"]
  /\ wake_at' = [wake_at EXCEPT ![id] = now + DATA_UPDATE_INTERVAL]
  /\ turn' = "idle"
  /\ EndOfCycle
  /\ UNCHANGED <<state, is_running_flag, trading_task, cancel_requested, call_vars, now,
                 book_vars, risk_result, settings, last_alert>>

\* a halt that sets STOPPED but neither clears the flag nor leaves the loop
LoopHaltStateOnly(id) ==
  /\ turn = "loop" /\ task_pc[id] = "halt"
  /\ recent_events' = _add_event(recent_events, "risk_halt", "", "risk_manager",
                                 risk_result.reason)
  /\ state' = "STOPPED"
  /\ task_pc' = [task_pc EXCEPT ![id] = "sleep_wait"]
  /\ wake_at' = [wake_at EXCEPT ![id] = now + DATA_UPDATE_INTERVAL]
  /\ turn' = "idle"
  /\ EndOfCycle
  /\ \E sent \in BOOLEAN : last_alert' = send_alert("Risk Alert: Hard Limit Breach", sent)
  /\ UNCHANGED <<is_running_flag, trading_task, cancel_requested, call_vars, now,
                 db_portfolio, trade_rows, portfolio_manager, risk_manager, strategies,
                 last_trade_at, trade_timestamps, risk_result, settings>>

\* a loop whose halt depends on the delivery of the risk alert: undelivered,
\* the cycle ends in the backoff sleep with the engine still running
LoopHaltNeedsAlert(id) ==
  /\ turn = "loop" /\ task_pc[id] = "halt"
  /\ recent_events' = _add_event(recent_events, "risk_halt", "", "risk_manager",
                                 risk_result.reason)
  /\ turn' = "idle"
  /\ EndOfCycle
  /\ \E sent \in BOOLEAN :
       /\ last_alert' = send_alert("Risk Alert: Hard Limit Breach", sent)
       /\ IF sent
          THEN /\ is_running_flag' = FALSE
               /\ state' = "STOPPED"
               /\ task_pc' = [task_pc EXCEPT ![id] = "done"]
               /\ UNCHANGED wake_at
          ELSE /\ task_pc' = [task_pc EXCEPT ![id] = "backoff_wait"]
               /\ wake_at' = [wake_at EXCEPT ![id] = now + BackoffTicks]
               /\ UNCHANGED <<is_running_flag, state>>
  /\ UNCHANGED <<trading_task, cancel_requested, call_vars, now, db_portfolio, trade_rows,
                 portfolio_manager, risk_manager, strategies, last_trade_at,
                 trade_timestamps, risk_result, settings>>

\* if not risk_ok: the risk_halt event, the risk alert, is_running_flag =
\* False, state = STOPPED, break: the task finishes
LoopHalt(id) ==
  /\ turn = "loop" /\ task_pc[id] = "halt"
  /\ recent_events' = _add_event(recent_events, "risk_halt", "", "risk_manager",
                                 risk_result.reason)
  /\ is_running_flag' = FALSE
  /\ state' = "STOPPED"
  /\ task_pc' = [task_pc EXCEPT ![id] = "done"]
  /\ turn' = "idle"
  /\ EndOfCycle
  /\ \E sent \in BOOLEAN : last_alert' = send_alert("Risk Alert: Hard Limit Breach", sent)
  /\ UNCHANGED <<trading_task, cancel_requested, wake_at, call_vars, now, db_portfolio, trade_rows,
                 portfolio_manager, risk_manager, strategies, last_trade_at,
                 trade_timestamps, risk_result, settings>>

\* asyncio.sleep returns: back to the while test
LoopWake(id) ==
  /\ turn = "idle" /\ task_pc[id] \in {"sleep_wait", "backoff_wait"}
  /\ ~cancel_requested[id]
  /\ now >= wake_at[id]
  /\ task_pc' = [task_pc EXCEPT ![id] = LoopTop(id)]
  /\ UNCHANGED <<state, is_running_flag, trading_task, cancel_requested, wake_at, turn,
                 call_vars, now, book_vars, cycle_vars, risk_result, settings, last_alert>>

\* time passes while every coroutine is suspended
Tick ==
  /\ turn = "idle"
  /\ now < MaxTime
  /\ now' = now + 1
  /\ UNCHANGED <<engine_vars, turn, call_vars, book_vars, cycle_vars, risk_result, settings, last_alert>>

(* ---------------- the engine ---------------- *)

\* A PortfolioManager before initialize()
NewPortfolioManager ==
  [initialized |-> FALSE, cash_balance |-> 0, total_value |-> 0, positions |-> <<>>]

\* TradingEngine.__init__ on a PortfolioManager that the application has
\* initialized already (main.py) or that start() is to initialize
Init ==
  /\ state = "STOPPED"
  /\ is_running_flag = FALSE
  /\ trading_task = 0
  /\ task_pc = [id \in Tasks |-> "unborn"]
  /\ cancel_requested = [id \in Tasks |-> FALSE]
  /\ wake_at = [id \in Tasks |-> 0]
  /\ turn = "idle"
  /\ start_pc = "idle"
  /\ stop_pc = "idle"
  /\ ret = [op |-> "none", outcome |-> "none"]
  /\ now = 0
  /\ db_portfolio \in DbPortfolios
  /\ trade_rows = <<>>
  /\ portfolio_manager \in
       {NewPortfolioManager,
        [initialized |-> TRUE, cash_balance |-> db_portfolio.cash_balance,
         total_value |-> db_portfolio.total_value, positions |-> db_portfolio.positions]}
  /\ risk_manager = NewRiskManager(portfolio_manager, now)
  /\ strategies = [g \in ENABLED_STRATEGIES |->
                     [total_trades |-> 0, winning_trades |-> 0, total_pnl |-> 0]]
  /\ recent_events = <<>>
  /\ last_trade_at = [s \in Symbols |-> None]
  /\ trade_timestamps = <<>>
  /\ market_data = NoData
  /\ history_ok = TRUE
  /\ signals = <<>>
  /\ pending = <<>>
  /\ exit_items = <<>>
  /\ orders = <<>>
  /\ calls = <<>>
  /\ risk_result = NoResult
  /\ settings = Settings
  /\ last_alert = NoAlert

Next ==
  \/ StartCall \/ StartIgnored \/ StartInitialize \/ StartInitializeFails
  \/ StartCreateTask \/ StartRunning \/ StartAlert \/ StartExcept
  \/ StopCall \/ StopIgnored \/ StopCancel \/ StopResume \/ StopStopped
  \/ \E id \in Tasks :
       \/ LoopStart(id) \/ LoopCancelled(id)
       \/ LoopFetchFails(id) \/ LoopFetchEmpty(id) \/ LoopFetchData(id)
       \/ LoopGenerateFails(id) \/ LoopGenerate(id)
       \/ LoopProcessSignal(id) \/ LoopSweepStart(id) \/ LoopExit(id)
       \/ LoopUpdate(id) \/ LoopRiskCheck(id) \/ LoopHalt(id) \/ LoopWake(id)
  \/ Tick

Spec == Init /\ [][Next]_vars

\* the engine whose operator has raised the daily trade limit by one
\* (POST /risk/limits, update_risk_limits) before the first start()
InitRestart ==
  /\ state = "STOPPED"
  /\ is_running_flag = FALSE
  /\ trading_task = 0
  /\ task_pc = [id \in Tasks |-> "unborn"]
  /\ cancel_requested = [id \in Tasks |-> FALSE]
  /\ wake_at = [id \in Tasks |-> 0]
  /\ turn = "idle"
  /\ start_pc = "idle"
  /\ stop_pc = "idle"
  /\ ret = [op |-> "none", outcome |-> "none"]
  /\ now = 0
  /\ db_portfolio \in DbPortfolios
  /\ trade_rows = <<>>
  /\ portfolio_manager \in
       {NewPortfolioManager,
        [initialized |-> TRUE, cash_balance |-> db_portfolio.cash_balance,
         total_value |-> db_portfolio.total_value, positions |-> db_portfolio.positions]}
  /\ risk_manager = update_risk_limits(NewRiskManager(portfolio_manager, now),
                                       [max_daily_trades |-> MAX_DAILY_TRADES + 1])
  /\ strategies = [g \in ENABLED_STRATEGIES |->
                     [total_trades |-> 0, winning_trades |-> 0, total_pnl |-> 0]]
  /\ recent_events = <<>>
  /\ last_trade_at = [s \in Symbols |-> None]
  /\ trade_timestamps = <<>>
  /\ market_data = NoData
  /\ history_ok = TRUE
  /\ signals = <<>>
  /\ pending = <<>>
  /\ exit_items = <<>>
  /\ orders = <<>>
  /\ calls = <<>>
  /\ risk_result = NoResult
  /\ settings = Settings
  /\ last_alert = NoAlert

SpecRestart == InitRestart /\ [][Next]_vars
(* ---------------- check_risk_limits on its own ---------------- *)

\* portfolio values, daily P&L and peaks (dollars) the check is applied to
RiskValueDollars == {0, 5000, 8000, 10000}
RiskPnlDollars == {-1000, -501, -500, -499, -250, 0, 100}
RiskPeakDollars == {5000, 8000, 10000, 12000}

\* a freshly constructed engine at rest, apart from the books and the events
EngineAtRest ==
  /\ state = "STOPPED"
  /\ is_running_flag = FALSE
  /\ trading_task = 0
  /\ task_pc = [id \in Tasks |-> "unborn"]
  /\ cancel_requested = [id \in Tasks |-> FALSE]
  /\ wake_at = [id \in Tasks |-> 0]
  /\ start_pc = "idle"
  /\ stop_pc = "idle"
  /\ ret = [op |-> "none", outcome |-> "none"]
  /\ db_portfolio \in DbPortfolios
  /\ trade_rows = <<>>
  /\ strategies = [g \in ENABLED_STRATEGIES |->
                     [total_trades |-> 0, winning_trades |-> 0, total_pnl |-> 0]]
  /\ market_data = NoData
  /\ history_ok = TRUE
  /\ pending = <<>>
  /\ exit_items = <<>>
  /\ orders = <<>>
  /\ calls = <<>>
  /\ risk_result = NoResult
  /\ last_alert = NoAlert

\* a RiskManager some way into a day (or left over from the day before) and
\* a portfolio in cash
InitRisk ==
  /\ EngineAtRest
  /\ recent_events = <<>>
  /\ now = 0
  /\ trade_timestamps = <<>>
  /\ db_portfolio.positions = <<>>
  /\ turn = "check"
  /\ \E v \in RiskValueDollars :
       portfolio_manager = [initialized |-> TRUE, cash_balance |-> v * Mills,
                            total_value |-> v * Mills, positions |-> <<>>]
  /\ \E pnl \in RiskPnlDollars, peak \in RiskPeakDollars, day \in {Date(now) - 1, Date(now)} :
       risk_manager = [risk_limits |-> RiskLimits,
                       daily_trades |-> IF pnl = 0 THEN 0 ELSE 1,
                       daily_pnl |-> pnl * Mills,
                       last_reset_date |-> day,
                       peak_portfolio_value |-> peak * Mills]
  /\ last_trade_at = [s \in Symbols |-> None]
  /\ signals = <<>>
  /\ settings = Settings

\* a call of RiskManager.check_risk_limits
RiskCheckCall ==
  /\ turn = "check"
  /\ LET res == check_risk_limits(risk_manager, portfolio_manager, now)
     IN /\ risk_manager' = res.rm
        /\ risk_result' = [ok |-> res.ok, reason |-> res.reason]
  /\ turn' = "idle"
  /\ UNCHANGED <<engine_vars, call_vars, now, db_portfolio, trade_rows, portfolio_manager, strategies,
                 recent_events, last_trade_at, trade_timestamps, cycle_vars, settings, last_alert>>

NextRisk == RiskCheckCall

SpecRisk == InitRisk /\ [][NextRisk]_vars

(* ---------------- _consolidate_signals on its own ---------------- *)

MaxInputSignals == 2
MaxCap == 2

\* the signals the strategies may hand to the consolidator
InputSignals ==
  { TradingSignal(s, a, c, MinPrice + 1, None, MinPrice, MinPrice + 3, g) :
      s \in Symbols, a \in {"BUY", "SELL", "HOLD"}, c \in {50, 80}, g \in ENABLED_STRATEGIES }

\* any list of input signals, any MAX_SIGNALS_PER_CYCLE the environment may
\* set (config.py puts no lower bound on it), with or without an open position
\* and a recent trade, before and after the cooldown and the minimum hold
InitCons ==
  /\ EngineAtRest
  /\ recent_events = <<>>
  /\ now \in 0..MaxTime
  /\ trade_timestamps = <<>>
  /\ turn = "consolidate"
  /\ portfolio_manager = [initialized |-> TRUE, cash_balance |-> db_portfolio.cash_balance,
                          total_value |-> db_portfolio.total_value,
                          positions |-> db_portfolio.positions]
  /\ risk_manager = NewRiskManager(portfolio_manager, now)
  /\ last_trade_at \in {[s \in Symbols |-> None],
                        [s \in Symbols |-> IF s = DEFAULT_SYMBOLS[2] THEN 0 ELSE None]}
  /\ signals \in UNION { [1..n -> InputSignals] : n \in 0..MaxInputSignals }
  /\ \E cap \in 0..MaxCap : settings = [Settings EXCEPT !.MAX_SIGNALS_PER_CYCLE = cap]

\* a call of TradingEngine._consolidate_signals
ConsolidateCall ==
  /\ turn = "consolidate"
  /\ pending' = _consolidate_signals(signals, last_trade_at, portfolio_manager,
                                     strategies, now)
  /\ recent_events' = ConsolidationEvents(recent_events, signals, last_trade_at,
                                          portfolio_manager, strategies, now)
  /\ turn' = "idle"
  /\ UNCHANGED <<engine_vars, call_vars, now, db_portfolio, trade_rows, portfolio_manager, risk_manager,
                 strategies, last_trade_at, trade_timestamps, market_data, history_ok,
                 signals, exit_items, orders, calls, risk_result, settings, last_alert>>

NextCons == ConsolidateCall

SpecCons == InitCons /\ [][NextCons]_vars

(* ---------------- _process_signals around the hour ---------------- *)

MaxWindow == 3

\* moments at which the engine is observed: the start, one tick later, and
\* the ticks around one hour after the start
HourlyTimes == {0, 1, HourTicks, HourTicks + 1, HourTicks + 2}

\* what trade_timestamps may hold at a moment: the times of earlier executed
\* trades, in the order they were appended
TradeWindows(t) ==
  { q \in UNION { [1..n -> {x \in HourlyTimes : x <= t}] : n \in 0..MaxWindow } :
      \A i, j \in DOMAIN q : i < j => q[i] <= q[j] }

\* MAX_BUY_NOTIONAL_USD as configured: disabled, or a cap of a few dollars
\* that buys at least one unit at every price
BuyNotionalCaps == {MAX_BUY_NOTIONAL_USD, MaxPrice + 1}

\* an engine in cash with any such window, about to process the signals of a
\* cycle
InitHourly ==
  /\ EngineAtRest
  /\ recent_events = <<>>
  /\ db_portfolio.positions = <<>>
  /\ now \in HourlyTimes
  /\ trade_timestamps \in TradeWindows(now)
  /\ turn = "signals"
  /\ portfolio_manager = [initialized |-> TRUE, cash_balance |-> db_portfolio.cash_balance,
                          total_value |-> db_portfolio.total_value,
                          positions |-> db_portfolio.positions]
  /\ risk_manager = NewRiskManager(portfolio_manager, now)
  /\ last_trade_at = [s \in Symbols |-> None]
  /\ signals = <<>>
  /\ settings \in {[Settings EXCEPT !.MAX_BUY_NOTIONAL_USD = c] : c \in BuyNotionalCaps}

\* _process_signals is called with the signals of a cycle and consolidates them
HourlyConsolidate ==
  /\ turn = "signals"
  /\ \E sigs \in GeneratedSignals([s \in Symbols |-> MinPrice + 1])
                   \cup {<<ThinSignal(s, g, "BUY", MinPrice + 1)>> :
                           s \in Symbols, g \in ENABLED_STRATEGIES} :
       /\ sigs # <<>>
       /\ signals' = sigs
       /\ pending' = _consolidate_signals(sigs, last_trade_at, portfolio_manager,
                                          strategies, now)
       /\ recent_events' = ConsolidationEvents(recent_events, sigs, last_trade_at,
                                               portfolio_manager, strategies, now)
  /\ turn' = "process"
  /\ UNCHANGED <<engine_vars, call_vars, now, db_portfolio, trade_rows, portfolio_manager,
                 risk_manager, strategies, last_trade_at, trade_timestamps, market_data,
                 history_ok, exit_items, orders, calls, risk_result, settings, last_alert>>

\* one pass of its loop body
HourlyProcess ==
  /\ turn = "process" /\ pending # <<>>
  /\ \E sent \in BOOLEAN : ProcessSignal(Head(pending), now, sent)
  /\ pending' = Tail(pending)
  /\ UNCHANGED <<engine_vars, turn, call_vars, now, db_portfolio, market_data, history_ok,
                 signals, exit_items, risk_result, settings>>

\* _process_signals returns; time passes until the next call
HourlyReturn ==
  /\ turn = "process" /\ pending = <<>>
  /\ \E t \in HourlyTimes : t > now /\ now' = t
  /\ turn' = "signals"
  /\ orders' = <<>>
  /\ calls' = <<>>
  /\ UNCHANGED <<engine_vars, call_vars, book_vars, market_data, history_ok, signals,
                 pending, exit_items, risk_result, settings, last_alert>>

NextHourly == HourlyConsolidate \/ HourlyProcess \/ HourlyReturn

SpecHourly == InitHourly /\ [][NextHourly]_vars

(* ---------------- validate_signal and calculate_position_size on their own ---------------- *)

\* portfolios the RiskManager may look at: in cash (nothing, little, the
\* default capital) or holding the first symbol with little or much cash left
SizingPortfolios ==
  { _calculate_total_value([initialized |-> TRUE, cash_balance |-> c * Mills,
                            total_value |-> 0, positions |-> <<>>]) : c \in {0, 50, DEFAULT_CAPITAL} }
  \cup
  { _calculate_total_value(
      [initialized |-> TRUE, cash_balance |-> c * Mills, total_value |-> 0,
       positions |-> (DEFAULT_SYMBOLS[1] :>
          Position((DEFAULT_CAPITAL \div 2) \div (MinPrice + 1), MinPrice + 1, MinPrice + 1,
                   MinPrice, MinPrice + 2, 0))]) : c \in {20, DEFAULT_CAPITAL \div 2} }

\* the signals handed to the RiskManager: with or without stop-loss, volume
\* and a correlating history
RiskSignals ==
  { [TradingSignal(s, a, 80, p, None, sl, IF a = "BUY" THEN p + 2 ELSE p - 2, "momentum")
       EXCEPT !.correlated = c, !.volume = v] :
      s \in Symbols, a \in {"BUY", "SELL"}, p \in {MinPrice + 1, MinPrice + 2},
      sl \in {None, MinPrice}, c \in BOOLEAN, v \in {None, 50} }

\* FIXED_TRADE_NOTIONAL_USD as configured: disabled, or a fixed notional below
\* MIN_POSITION_NOTIONAL (tests/test_risk_manager_enforcement.py sets 1.0
\* against a minimum of 10.0)
FixedNotionals == {FIXED_TRADE_NOTIONAL_USD, MIN_POSITION_NOTIONAL - 2}

\* max_portfolio_risk as the RiskManager may hold it: the setting, or ten times
\* the setting after an update_risk_limits
PortfolioRiskLimits == {MAX_PORTFOLIO_RISK, 10 * MAX_PORTFOLIO_RISK}

\* a RiskManager with or without the day's trades used up and a loss beyond
\* the daily limit, its counters of today or of the day before
InitValidate ==
  /\ EngineAtRest
  /\ recent_events = <<>>
  /\ db_portfolio.positions = <<>>
  /\ now = 0
  /\ trade_timestamps = <<>>
  /\ turn = "validate"
  /\ portfolio_manager \in SizingPortfolios
  /\ \E n \in {0, MAX_DAILY_TRADES}, loss \in {0, 600}, day \in {Date(now) - 1, Date(now)},
        mv \in {MIN_VOLUME, 100}, mr \in PortfolioRiskLimits :
       risk_manager = [risk_limits |-> [RiskLimits EXCEPT !.min_volume = mv,
                                                          !.max_portfolio_risk = mr],
                       daily_trades |-> n, daily_pnl |-> -(loss * Mills),
                       last_reset_date |-> day,
                       peak_portfolio_value |-> _get_portfolio_value(portfolio_manager)]
  /\ last_trade_at = [s \in Symbols |-> None]
  /\ \E sig \in RiskSignals : signals = <<sig>>
  /\ settings \in {[Settings EXCEPT !.FIXED_TRADE_NOTIONAL_USD = f] : f \in FixedNotionals}

\* a call of RiskManager.validate_signal(signal); the signal comes back with
\* the quantity the call left in it
ValidateCall ==
  /\ turn = "validate"
  /\ LET res == validate_signal(risk_manager, portfolio_manager, Head(signals), now)
     IN /\ risk_manager' = res.rm
        /\ risk_result' = [ok |-> res.ok, reason |-> res.reason]
        /\ pending' = <<[Head(signals) EXCEPT !.quantity = res.quantity]>>
        /\ calls' = res.checks
  /\ turn' = "validated"
  /\ UNCHANGED <<engine_vars, call_vars, now, db_portfolio, trade_rows, portfolio_manager,
                 strategies, recent_events, last_trade_at, trade_timestamps, market_data,
                 history_ok, signals, exit_items, orders, settings, last_alert>>

\* a call of RiskManager.calculate_position_size(signal)
SizeCall ==
  /\ turn \in {"validate", "sized"}
  /\ ret' = [op |-> "calculate_position_size",
             outcome |-> calculate_position_size(risk_manager, portfolio_manager,
                                                 Head(signals))]
  /\ turn' = "sized"
  /\ UNCHANGED <<engine_vars, start_pc, stop_pc, now, book_vars, cycle_vars, risk_result,
                 settings, last_alert>>

\* one pass of the loop body of _process_signals for the signal: the hourly
\* limit, validate_signal and, for a validated signal, _execute_trade
ValidateProcess ==
  /\ turn = "validate"
  /\ \E sent \in BOOLEAN : ProcessSignal(Head(signals), now, sent)
  /\ turn' = "processed"
  /\ UNCHANGED <<engine_vars, call_vars, now, db_portfolio, market_data, history_ok,
                 signals, pending, exit_items, risk_result, settings>>

NextValidate == ValidateCall \/ SizeCall \/ ValidateProcess

SpecValidate == InitValidate /\ [][NextValidate]_vars

(* ---------------- the operations of the RiskManager in any order ---------------- *)

MaxRecorded == 2        \* trades recorded in a run

\* moments at which the RiskManager is called: on its first day and on the
\* next
OpsTimes == {0, 1, DayTicks, DayTicks + 1}

\* the portfolio values (dollars) it reads, and the realised P&L of the trades
\* it records
OpsValueDollars == {0, DEFAULT_CAPITAL - 500, DEFAULT_CAPITAL, DEFAULT_CAPITAL + 500}
OpsPnlDollars == {-300, 200}

\* the limits an operator may send: known keys, a key RiskLimits has not, or
\* both in one map
OpsNewLimits ==
  { [max_daily_trades |-> MAX_DAILY_TRADES + 1, no_such_limit |-> 1], [max_drawdown |-> 2],
    [no_such_limit |-> 1] }

\* a cash portfolio worth v dollars
CashPortfolio(v) ==
  [initialized |-> TRUE, cash_balance |-> v * Mills, total_value |-> v * Mills,
   positions |-> <<>>]

\* a portfolio worth v dollars that holds one unit of the first symbol (none
\* when it is worth nothing)
HoldingPortfolio(v) ==
  IF v <= MinPrice + 1 THEN CashPortfolio(v)
  ELSE [initialized |-> TRUE, cash_balance |-> (v - (MinPrice + 1)) * Mills,
        total_value |-> v * Mills,
        positions |-> (DEFAULT_SYMBOLS[1] :>
                         Position(1, MinPrice + 1, MinPrice + 1, None, None, 0))]

\* a RiskManager constructed over the default capital
InitOps ==
  /\ EngineAtRest
  /\ recent_events = <<>>
  /\ db_portfolio.positions = <<>>
  /\ now = 0
  /\ trade_timestamps = <<>>
  /\ turn = "ops"
  /\ portfolio_manager = HoldingPortfolio(DEFAULT_CAPITAL)
  /\ risk_manager = NewRiskManager(portfolio_manager, now)
  /\ last_trade_at = [s \in Symbols |-> None]
  /\ signals = <<>>
  /\ settings = Settings

\* the variables no operation of the RiskManager touches
ops_frame == <<engine_vars, turn, start_pc, stop_pc, db_portfolio, strategies, recent_events,
               last_trade_at, trade_timestamps, market_data, history_ok, signals,
               exit_items, orders, calls, settings, last_alert>>

\* _process_signals calls validate_signal(signal) for a strategy's SELL of the
\* first symbol; pending holds the signal while it is validated and not yet
\* executed
OpsValidate ==
  /\ \E sig \in {StrategySignal(DEFAULT_SYMBOLS[1], "momentum", "SELL", MinPrice + 1)} :
       LET res == validate_signal(risk_manager, portfolio_manager, sig, now)
       IN /\ risk_manager' = res.rm
          /\ risk_result' = [ok |-> res.ok, reason |-> res.reason]
          /\ pending' = IF res.ok THEN <<[sig EXCEPT !.quantity = res.quantity]>> ELSE <<>>
  /\ ret' = [op |-> "validate_signal", outcome |-> "done"]
  /\ UNCHANGED <<ops_frame, now, trade_rows, portfolio_manager>>

\* the validated signal is executed, the PortfolioManager writes the trade to
\* the trades table, and _process_signals calls record_trade(trade_result)
OpsRecordTrade ==
  /\ Len(trade_rows) < MaxRecorded
  /\ pending # <<>>
  /\ \E pnl \in OpsPnlDollars :
       LET tr == [ok |-> TRUE, symbol |-> Head(pending).symbol, side |-> Head(pending).action,
                  strategy |-> Head(pending).strategy, pnl |-> pnl * Mills]
       IN /\ risk_manager' = record_trade(risk_manager, portfolio_manager, tr)
          /\ trade_rows' = _record_trade_in_db(trade_rows, tr, now)
  /\ pending' = <<>>
  /\ ret' = [op |-> "record_trade", outcome |-> "done"]
  /\ UNCHANGED <<ops_frame, now, portfolio_manager, risk_result>>

\* check_risk_limits()
OpsCheck ==
  /\ LET res == check_risk_limits(risk_manager, portfolio_manager, now)
     IN /\ risk_manager' = res.rm
        /\ risk_result' = [ok |-> res.ok, reason |-> res.reason]
  /\ ret' = [op |-> "check_risk_limits", outcome |-> "done"]
  /\ UNCHANGED <<ops_frame, now, trade_rows, portfolio_manager, pending>>

\* get_risk_metrics()
OpsMetrics ==
  /\ LET res == get_risk_metrics(risk_manager, portfolio_manager, now)
     IN /\ risk_manager' = res.rm
        /\ ret' = [op |-> "get_risk_metrics", outcome |-> res.metrics]
  /\ UNCHANGED <<ops_frame, now, trade_rows, portfolio_manager, risk_result, pending>>

\* update_risk_limits(new_limits)
OpsUpdateLimits ==
  /\ \E nl \in OpsNewLimits :
       /\ risk_manager' = update_risk_limits(risk_manager, nl)
       /\ ret' = [op |-> "update_risk_limits", outcome |-> nl]
  /\ UNCHANGED <<ops_frame, now, trade_rows, portfolio_manager, risk_result, pending>>

\* between two operations the market moves the portfolio value
OpsValueMoves ==
  /\ \E v \in OpsValueDollars : portfolio_manager' = HoldingPortfolio(v)
  /\ portfolio_manager' # portfolio_manager
  /\ ret' = [op |-> "none", outcome |-> "none"]
  /\ UNCHANGED <<ops_frame, now, trade_rows, risk_manager, risk_result, pending>>

\* between two operations time passes
OpsTick ==
  /\ \E t \in OpsTimes : t > now /\ now' = t
  /\ ret' = [op |-> "none", outcome |-> "none"]
  /\ UNCHANGED <<ops_frame, trade_rows, portfolio_manager, risk_manager, risk_result,
                 pending>>

NextOps ==
  \/ OpsValidate \/ OpsRecordTrade \/ OpsCheck \/ OpsMetrics \/ OpsUpdateLimits
  \/ OpsValueMoves \/ OpsTick

SpecOps == InitOps /\ [][NextOps]_vars

(* ---------------- the ring of recent events on its own ---------------- *)

MaxAdds == 2            \* events added in a run

\* the messages of the rejections an engine records
RingMessages == <<"hourly trade limit reached", "execution rejected", "position size too small">>

\* the i-th most recent event of an engine that has only recorded rejections,
\* cycling through the symbols, the strategies and the messages from the
\* offset off
RingEvent(i, off) ==
  [type |-> "rejected",
   symbol |-> DEFAULT_SYMBOLS[((i + off) % Len(DEFAULT_SYMBOLS)) + 1],
   strategy |-> IF ((i + off) \div 2) % 2 = 0 THEN "momentum" ELSE "mean_reversion",
   message |-> RingMessages[((i + off) % Len(RingMessages)) + 1]]

\* its ring once it holds n events
RingOf(n, off) == [i \in 1..n |-> RingEvent(i, off)]

\* the events _add_event is called with
RingInputs ==
  { [type |-> "trade", symbol |-> s, strategy |-> "momentum", message |-> "executed"] :
      s \in Symbols }
  \cup { [type |-> "risk_halt", symbol |-> "", strategy |-> "risk_manager",
          message |-> "daily loss limit exceeded"] }

\* an engine whose ring holds any number of events up to its capacity
InitRing ==
  /\ EngineAtRest
  /\ \E n \in 0..RecentEventsMaxLen, off \in 0..1 : recent_events = RingOf(n, off)
  /\ db_portfolio.positions = <<>>
  /\ now = 0
  /\ trade_timestamps = <<>>
  /\ turn = "ring"
  /\ portfolio_manager = [initialized |-> TRUE, cash_balance |-> db_portfolio.cash_balance,
                          total_value |-> db_portfolio.total_value,
                          positions |-> db_portfolio.positions]
  /\ risk_manager = NewRiskManager(portfolio_manager, now)
  /\ last_trade_at = [s \in Symbols |-> None]
  /\ signals = <<>>
  /\ settings = Settings

\* a call of _add_event; now counts the calls
AddEventCall ==
  /\ now < MaxAdds
  /\ \E e \in RingInputs :
       /\ recent_events' = _add_event(recent_events, e.type, e.symbol, e.strategy, e.message)
       /\ ret' = [op |-> "_add_event", outcome |-> e]
  /\ now' = now + 1
  /\ UNCHANGED <<engine_vars, turn, start_pc, stop_pc, db_portfolio, trade_rows,
                 portfolio_manager, risk_manager, strategies, last_trade_at,
                 trade_timestamps, cycle_vars, risk_result, settings, last_alert>>

NextRing == AddEventCall

SpecRing == InitRing /\ [][NextRing]_vars

(* ---------------- _passes_edge_filter on its own ---------------- *)

\* the price of the signals the filter is applied to, and the distances of
\* their take-profit and stop-loss from it (2, 3, 5 and 60 per mille of it)
EdgePrice == 1000
EdgeRewards == {2, 3, 5, 60}
EdgeRisks == {1, 20}

\* what _return_stats makes of the closes a signal carries: nothing (fewer than
\* 3 closes), or a flat, calm or wild history, short or long enough for the
\* trend check, trending up or down
EdgeStats ==
  {NoStats} \cup
  { [present |-> TRUE, std |-> sd, count |-> n, trend_z |-> z] :
      sd \in {0, 10, 400}, n \in {2, ENTRY_FILTER_MIN_HISTORY},
      z \in {-ENTRY_FILTER_TREND_Z_MIN - 5, ENTRY_FILTER_TREND_Z_MIN + 5} }

\* the signals: of a strategy or of the exit sweep, with a price or none, with
\* or without take-profit and stop-loss
EdgeSignals ==
  { [TradingSignal("BTC-USD", a, 80, p, None,
                   IF r = None THEN None ELSE IF a = "BUY" THEN p - r ELSE p + r,
                   IF w = None THEN None ELSE IF a = "BUY" THEN p + w ELSE p - w,
                   g) EXCEPT !.stats = st] :
      a \in {"BUY", "SELL"}, p \in {0, EdgePrice}, r \in {None} \cup EdgeRisks,
      w \in {None} \cup EdgeRewards, g \in {"risk_exit", "momentum"}, st \in EdgeStats }

InitEdge ==
  /\ EngineAtRest
  /\ recent_events = <<>>
  /\ db_portfolio.positions = <<>>
  /\ now = 0
  /\ trade_timestamps = <<>>
  /\ turn = "edge"
  /\ portfolio_manager = [initialized |-> TRUE, cash_balance |-> db_portfolio.cash_balance,
                          total_value |-> db_portfolio.total_value,
                          positions |-> db_portfolio.positions]
  /\ risk_manager = NewRiskManager(portfolio_manager, now)
  /\ last_trade_at = [s \in Symbols |-> None]
  /\ \E sig \in EdgeSignals : signals = <<sig>>
  /\ settings \in {[Settings EXCEPT !.ADVANCED_ENTRY_FILTER_ENABLED = b] : b \in BOOLEAN}

\* a call of TradingEngine._passes_edge_filter(signal)
EdgeCall ==
  /\ turn = "edge"
  /\ ret' = [op |-> "_passes_edge_filter", outcome |-> _passes_edge_filter(Head(signals))]
  /\ turn' = "edged"
  /\ UNCHANGED <<engine_vars, start_pc, stop_pc, now, book_vars, cycle_vars, risk_result,
                 settings, last_alert>>

NextEdge == EdgeCall

SpecEdge == InitEdge /\ [][NextEdge]_vars

(* ---------------- SolanaExecutionService in live mode ---------------- *)

\* the HTTP statuses _execute_live sleeps and retries on
retryable_codes == {408, 409, 425, 429, 500, 502, 503, 504}

\* what one requests.post can come to: a transport error (no response: a
\* requests.ConnectionError or Timeout), or a response with a status and, under
\* status 200, a body with "ok" and perhaps "filled_price"
TransportError == [status |-> None, ok |-> FALSE, filled_price |-> None]
Responses ==
  { TransportError }
  \cup { [status |-> c, ok |-> FALSE, filled_price |-> None] : c \in {400, 429, 503} }
  \cup { [status |-> 200, ok |-> k, filled_price |-> f] :
           k \in BOOLEAN, f \in {None, MaxPrice} }

\* the trades handed to execute: with a request_id of the caller or without
ExecTrades ==
  { [symbol |-> DEFAULT_SYMBOLS[1], side |-> "BUY", quantity |-> 1, price |-> MinPrice,
     request_id |-> r] : r \in {"", "req-1"} }

\* str(trade_data.get("request_id") or uuid4())
RequestId(trade_data) ==
  IF trade_data.request_id = "" THEN "uuid4" ELSE trade_data.request_id

\* response.raise_for_status(): an HTTPError, which is a RequestException, for
\* every status from 400 on
RaisesForStatus(response) == response.status # None /\ response.status >= 400

\* the dictionary _execute_live returns for a response it accepts
Fill(trade_data, response) ==
  [status |-> "FILLED",
   execution_price |-> IF response.filled_price # None THEN response.filled_price
                       ELSE trade_data.price,
   execution_mode |-> "live", request_id |-> RequestId(trade_data)]

\* a service in live mode about to be handed a trade
InitExec ==
  /\ EngineAtRest
  /\ recent_events = <<>>
  /\ db_portfolio.positions = <<>>
  /\ now = 0
  /\ trade_timestamps = <<>>
  /\ turn = "execute"
  /\ portfolio_manager = CashPortfolio(DEFAULT_CAPITAL)
  /\ risk_manager = NewRiskManager(portfolio_manager, now)
  /\ last_trade_at = [s \in Symbols |-> None]
  /\ signals = <<>>
  /\ settings \in { [Settings EXCEPT !.SOLANA_EXECUTOR_MAX_RETRIES = n] :
                      n \in 0..SOLANA_EXECUTOR_MAX_RETRIES }

\* the variables the service does not touch
exec_frame == <<engine_vars, start_pc, stop_pc, now, book_vars, market_data, history_ok,
                signals, pending, exit_items, risk_result, settings, last_alert>>

\* _execute_live up to its loop (lines 44-88): without the executor's URL or
\* the key it returns None at once
ExecCall ==
  /\ turn = "execute"
  /\ \E trade_data \in ExecTrades, configured \in BOOLEAN :
       /\ orders' = <<trade_data>>
       /\ IF configured
          THEN turn' = "attempt" /\ ret' = ret
          ELSE turn' = "returned" /\ ret' = [op |-> "execute", outcome |-> None]
  /\ calls' = <<>>
  /\ UNCHANGED exec_frame

\* one pass of the loop (lines 89-128): the request, then the sleep before the
\* next pass or the return.  calls holds the requests sent for the trade, and
\* attempt is their number before this one.
ExecAttempt ==
  /\ turn = "attempt"
  /\ \E response \in Responses :
       LET trade_data == orders[1]
           attempt == Len(calls)
           max_retries == settings.SOLANA_EXECUTOR_MAX_RETRIES
           request == [idempotency_key |-> RequestId(trade_data),
                       client_order_id |-> RequestId(trade_data),
                       response |-> response]
           again == [t |-> "attempt", r |-> ret]
           none == [t |-> "returned", r |-> [op |-> "execute", outcome |-> None]]
           next ==
             IF response = TransportError
             THEN IF attempt < max_retries THEN again ELSE none
             ELSE IF response.status \in retryable_codes /\ attempt < max_retries
             THEN again
             ELSE IF RaisesForStatus(response)
             THEN IF attempt < max_retries THEN again ELSE none
             ELSE IF ~response.ok THEN none
             ELSE [t |-> "returned",
                   r |-> [op |-> "execute", outcome |-> Fill(trade_data, response)]]
       IN /\ calls' = Append(calls, request)
          /\ turn' = next.t
          /\ ret' = next.r
  /\ UNCHANGED <<exec_frame, orders>>

NextExec == ExecCall \/ ExecAttempt

SpecExec == InitExec /\ [][NextExec]_vars

(* ---------------- PortfolioManager.execute_trade on its own ---------------- *)

\* the cash (dollars) of the portfolio row the PortfolioManager has loaded
TradeCashDollars == {MaxPrice, MaxPrice * MaxPrice}

\* the trade_data handed to execute_trade
TradeDatas ==
  { [symbol |-> s, side |-> a, quantity |-> q, price |-> p, strategy |-> "momentum",
     stop_loss |-> p - 1, take_profit |-> p + 2] :
      s \in Symbols, a \in {"BUY", "SELL"}, q \in 1..MaxPrice, p \in Prices }

InitTrades ==
  /\ EngineAtRest
  /\ recent_events = <<>>
  /\ db_portfolio.positions = <<>>
  /\ now = 0
  /\ trade_timestamps = <<>>
  /\ turn = "trade"
  /\ \E v \in TradeCashDollars : portfolio_manager = CashPortfolio(v)
  /\ risk_manager = NewRiskManager(portfolio_manager, now)
  /\ last_trade_at = [s \in Symbols |-> None]
  /\ signals = <<>>
  /\ settings = Settings

\* the variables execute_trade does not touch
trades_frame == <<engine_vars, turn, start_pc, stop_pc, now, db_portfolio, risk_manager,
                  strategies, recent_events, last_trade_at, trade_timestamps, market_data,
                  history_ok, signals, pending, exit_items, calls, risk_result, settings,
                  last_alert>>

\* await portfolio_manager.execute_trade(trade_data): orders holds the
\* trade_data of the call, ret what it returned
TradeCall ==
  /\ turn = "trade"
  /\ Len(trade_rows) < MaxRecorded
  /\ \E trade_data \in TradeDatas :
       LET done == execute_trade(portfolio_manager, trade_data, now)
       IN /\ orders' = <<trade_data>>
          /\ portfolio_manager' = done.pm
          /\ trade_rows' = _record_trade_in_db(trade_rows, done.tr, now)
          /\ ret' = [op |-> "execute_trade",
                     outcome |-> IF done.tr.ok THEN "FILLED" ELSE None]
  /\ UNCHANGED trades_frame

NextTrades == TradeCall

SpecTrades == InitTrades /\ [][NextTrades]_vars

(* ======================= properties ======================= *)

\* the positions of a loop task inside a cycle, between two suspensions
CyclePcs == {"generate", "process", "exits", "risk", "halt"}
Active(id) == task_pc[id] \notin {"unborn"} \cup Finished

\* C1: the exit sweep snapshots every open position, and for each of them
\* whose snapshot price is at or below its stop-loss or at or above its
\* take-profit it hands, in that pass of the sweep, a risk_exit SELL for the
\* whole held quantity to PortfolioManager.execute_trade, which closes the
\* position, whatever the cooldown, the hourly window and the daily limits say.
ForcedExitAlwaysSubmitted ==
  [][\A id \in Tasks :
       /\ (task_pc[id] = "process" /\ task_pc'[id] = "exits")
            => /\ {exit_items'[i].symbol : i \in DOMAIN exit_items'}
                    = DOMAIN portfolio_manager.positions
               /\ \A i \in DOMAIN exit_items' :
                    exit_items'[i].pos = portfolio_manager.positions[exit_items'[i].symbol]
       /\ (task_pc[id] = "exits" /\ exit_items # <<>>)
            => LET symbol == Head(exit_items).symbol
                   pos == portfolio_manager.positions[symbol]
                   price == market_data[symbol]
               IN /\ symbol \in DOMAIN portfolio_manager.positions
                  /\ Head(exit_items).pos = pos
                  /\ (/\ price # None
                      /\ pos.quantity > 0
                      /\ \/ pos.stop_loss \notin {None, 0} /\ price <= pos.stop_loss
                         \/ pos.take_profit \notin {None, 0} /\ price >= pos.take_profit)
                       => /\ Len(orders') = Len(orders) + 1
                          /\ orders'[Len(orders')].symbol = symbol
                          /\ orders'[Len(orders')].side = "SELL"
                          /\ orders'[Len(orders')].strategy = "risk_exit"
                          /\ orders'[Len(orders')].quantity = pos.quantity
                          /\ orders'[Len(orders')].price = price
                          /\ symbol \notin DOMAIN portfolio_manager'.positions
  ]_vars

\* C1 witness: a forced exit was submitted while the daily trade limit was
\* reached and the symbol's cooldown still ran
ForcedExitDespiteGates ==
  \E id \in Tasks :
    /\ task_pc[id] = "exits"
    /\ orders # <<>>
    /\ orders[Len(orders)].strategy = "risk_exit"
    /\ risk_manager.daily_trades >= risk_manager.risk_limits.max_daily_trades
    /\ last_trade_at[orders[Len(orders)].symbol] # None
    /\ now - last_trade_at[orders[Len(orders)].symbol] < settings.SIGNAL_COOLDOWN_SECONDS

\* C2: a check_risk_limits that is not ok sends the loop to its halt, which
\* records the risk_halt event with the reason, calls the risk alert, clears
\* the running flag, sets STOPPED and ends the task; a finished task stays
\* finished, and while every task created so far is finished no trade and no
\* cycle happens: only start() creates the next task.
RiskBreachHalts ==
  [][/\ \A id \in Tasks :
          /\ (task_pc[id] = "risk" /\ task_pc'[id] # "risk" /\ ~risk_result'.ok)
               => task_pc'[id] = "halt" /\ state = "RUNNING"
          /\ task_pc[id] = "halt"
               => /\ state' = "STOPPED"
                  /\ ~is_running_flag'
                  /\ task_pc'[id] = "done"
                  /\ recent_events' # <<>>
                  /\ Head(recent_events').type = "risk_halt"
                  /\ Head(recent_events').message = risk_result.reason
                  /\ last_alert'.title = "Risk Alert: Hard Limit Breach"
          /\ task_pc[id] = "done" => task_pc'[id] = "done"
     /\ (trading_task > 0 /\ \A id \in 1..trading_task : task_pc[id] \in Finished)
          => /\ UNCHANGED <<portfolio_manager, risk_manager, trade_timestamps, orders,
                            market_data, last_trade_at>>
             /\ (trading_task' # trading_task => start_pc = "create_task")
  ]_vars

\* C2 witness: the engine halted itself on a breach and nothing runs
HaltedAfterBreach ==
  /\ state = "STOPPED"
  /\ recent_events # <<>>
  /\ Head(recent_events).type = "risk_halt"
  /\ ~risk_result.ok
  /\ trading_task > 0
  /\ task_pc[trading_task] = "done"
  /\ now > 0
\* C3: once check_risk_limits has answered on a positive portfolio value, it
\* is not ok exactly if the day's P&L is at or below minus max_daily_loss of
\* the portfolio value, or the drawdown from the peak is above max_drawdown;
\* a portfolio of 10000 with a daily P&L of -500 under a 5% limit is refused
\* with "daily loss limit exceeded".
RiskCheckIffBreach ==
  (risk_result # NoResult /\ portfolio_manager.total_value > 0) =>
    LET pv == portfolio_manager.total_value
        peak == risk_manager.peak_portfolio_value
        daily_loss == risk_manager.daily_pnl * 100 <= -(MAX_DAILY_LOSS * pv)
        drawdown == (peak - pv) * 100 > MAX_DRAWDOWN * peak
    IN /\ peak >= pv
       /\ ~risk_result.ok <=> (daily_loss \/ drawdown)
       /\ (pv = 10000 * Mills /\ risk_manager.daily_pnl = -500 * Mills /\ MAX_DAILY_LOSS = 5)
            => ~risk_result.ok /\ risk_result.reason = "daily loss limit exceeded"

\* C3 witness: the scenario of 10000 and -500 has been checked and refused
DailyLossAtTheLimitRefused ==
  /\ risk_result = [ok |-> FALSE, reason |-> "daily loss limit exceeded"]
  /\ portfolio_manager.total_value = 10000 * Mills
  /\ risk_manager.daily_pnl = -500 * Mills
  /\ risk_manager.risk_limits.max_daily_loss = 5

\* C4: every change of TradingEngine.state is STOPPED to STARTING, STARTING to
\* RUNNING, RUNNING to STOPPING, STOPPING to STOPPED, RUNNING to STOPPED by
\* the halt of the loop, or a move to ERROR in the except clause of start().
OnlyLegalStateChanges ==
  [][state' # state =>
       \/ <<state, state'>> \in {<<"STOPPED", "STARTING">>, <<"STARTING", "RUNNING">>,
                                 <<"RUNNING", "STOPPING">>, <<"STOPPING", "STOPPED">>}
       \/ /\ <<state, state'>> = <<"RUNNING", "STOPPED">>
          /\ \E id \in Tasks : task_pc[id] = "halt" /\ task_pc'[id] = "done"
       \/ /\ state' = "ERROR"
          /\ start_pc = "except"
  ]_vars

\* C4 witness: the engine runs again after a risk halt and a new start()
RunningAgainAfterHalt ==
  /\ state = "RUNNING"
  /\ trading_task = 2
  /\ task_pc[1] = "done"
  /\ Active(2)

\* C5: stop() on a RUNNING engine clears the flag and cancels the loop task,
\* sets STOPPED and returns only once that task has finished; a finished task
\* never moves again, and the cycle's work (signals, exits, orders, risk
\* check) only advances while a task that is not finished is inside a cycle.
StopAwaitsLoopTermination ==
  [][/\ (stop_pc = "set_flag" /\ stop_pc' # "set_flag")
          => /\ ~is_running_flag'
             /\ trading_task # 0
             /\ cancel_requested'[trading_task] \/ task_pc[trading_task] \in Finished
     /\ (stop_pc = "set_stopped" /\ stop_pc' = "idle")
          => /\ task_pc[trading_task] \in Finished
             /\ task_pc'[trading_task] \in Finished
             /\ state' = "STOPPED"
             /\ ret' = [op |-> "stop", outcome |-> "ok"]
     /\ \A id \in Tasks : task_pc[id] \in Finished => task_pc'[id] = task_pc[id]
     /\ (pending' # pending \/ exit_items' # exit_items \/ orders' # orders
           \/ risk_result' # risk_result \/ trade_timestamps' # trade_timestamps
           \/ risk_manager' # risk_manager)
          => \E id \in Tasks : task_pc[id] \in CyclePcs \cup {"fetch_wait"}
  ]_vars

\* C5 witness: stop() has returned on a cancelled loop
StoppedByStop ==
  /\ state = "STOPPED"
  /\ ret = [op |-> "stop", outcome |-> "ok"]
  /\ trading_task > 0
  /\ task_pc[trading_task] = "cancelled"
  /\ stop_pc = "idle"

\* C6: at most one loop task is alive, at most one is inside a cycle, and it
\* is inside a cycle exactly while the loop holds the thread, so neither
\* start() nor stop() nor another cycle runs between two of its steps.
SingleLoopTask ==
  /\ Cardinality({id \in Tasks : Active(id)}) <= 1
  /\ Cardinality({id \in Tasks : task_pc[id] \in CyclePcs}) <= 1
  /\ (turn = "loop") <=> (\E id \in Tasks : task_pc[id] \in CyclePcs)
  /\ (\E id \in Tasks : task_pc[id] \in CyclePcs) => start_pc = "idle" /\ stop_pc = "idle"

\* C6 witness: the second loop task processes a signal, the first is finished
SecondTaskTrading ==
  /\ task_pc[1] \in Finished
  /\ task_pc[2] = "process"
  /\ pending # <<>>

\* C7: start() goes ahead only from STOPPED and stop() only from RUNNING; a
\* call in any other state returns and leaves state, is_running_flag, the
\* loop task and its cancellation as they were.
CallsOutsideSourceStateChangeNothing ==
  [][/\ (start_pc = "idle" /\ start_pc' # "idle") => state = "STOPPED"
     /\ (stop_pc = "idle" /\ stop_pc' # "idle") => state = "RUNNING"
     /\ (ret' # ret /\ ret'.outcome = "noop")
          => /\ UNCHANGED <<state, is_running_flag, trading_task, task_pc, cancel_requested>>
             /\ \/ ret'.op = "start" /\ state # "STOPPED"
                \/ ret'.op = "stop" /\ state # "RUNNING"
  ]_vars

\* C7 witness: start() was called on an engine in ERROR, which is still in ERROR
StartIgnoredInError ==
  /\ state = "ERROR"
  /\ ret = [op |-> "start", outcome |-> "noop"]
  /\ trading_task = 0
  /\ ~is_running_flag
\* C8: a step of start() that raises sends control to the except clause,
\* which sets ERROR and re-raises to the caller; the one step that can raise
\* is the portfolio initialisation, for the start alert reports a failed
\* delivery by a false result that start() ignores: start() then returns
\* normally with the engine RUNNING.
StartErrorSetsError ==
  [][/\ (start_pc = "initialize" /\ start_pc' # "initialize")
          => \/ start_pc' = "create_task" /\ portfolio_manager'.initialized
             \/ start_pc' = "except" /\ ~portfolio_manager'.initialized
     /\ start_pc = "except"
          => /\ state' = "ERROR"
             /\ start_pc' = "idle"
             /\ ret' = [op |-> "start", outcome |-> "raised"]
     /\ (start_pc # "idle" /\ start_pc' = "idle")
          => \/ start_pc = "except"
             \/ /\ start_pc = "send_alert"
                /\ state' = "RUNNING"
                /\ ret' = [op |-> "start", outcome |-> "ok"]
                /\ last_alert'.title = "Trading Engine Started"
  ]_vars

\* C8 witness: the portfolio initialisation failed and start() left ERROR
StartFailedInError ==
  /\ state = "ERROR"
  /\ ret = [op |-> "start", outcome |-> "raised"]
  /\ start_pc = "idle"
  /\ ~portfolio_manager.initialized
  /\ trading_task = 0

\* C8 as stated: also a start alert that failed leaves ERROR and a failure at
\* the caller
StartAlertFailureSetsError ==
  (start_pc = "idle" /\ last_alert = [title |-> "Trading Engine Started", sent |-> FALSE])
    => state = "ERROR" /\ ret = [op |-> "start", outcome |-> "raised"]

\* C9: an error of the data fetch or of the signal generation leaves the
\* engine RUNNING with its flag set and the task in the backoff sleep; from
\* that sleep the task goes to the next data fetch, unless stop() cancels it;
\* and a task only ever finishes by the risk halt or by the cancellation of a
\* stop() that is waiting for it.
CycleErrorKeepsLoopRunning ==
  [][\A id \in Tasks :
       /\ (task_pc[id] \in {"fetch_wait", "generate"} /\ task_pc'[id] \notin {"fetch_wait", "generate"})
            => \/ task_pc'[id] \in {"generate", "process", "sleep_wait"}
               \/ /\ task_pc'[id] = "backoff_wait"
                  /\ state = "RUNNING" /\ state' = "RUNNING"
                  /\ is_running_flag'
                  /\ wake_at'[id] = now + BackoffTicks
               \/ task_pc'[id] = "cancelled" /\ stop_pc = "await"
       /\ (task_pc[id] = "backoff_wait" /\ task_pc'[id] # "backoff_wait")
            => \/ task_pc'[id] = "fetch_wait" /\ now >= wake_at[id] /\ state = "RUNNING"
               \/ task_pc'[id] = "cancelled" /\ stop_pc = "await"
       /\ (task_pc[id] \notin Finished /\ task_pc'[id] \in Finished)
            => \/ task_pc[id] = "halt" /\ task_pc'[id] = "done"
               \/ task_pc'[id] = "cancelled" /\ stop_pc = "await" /\ trading_task = id
  ]_vars

\* C9 witness: after a failed cycle the task has slept its backoff and is
\* about to fetch again, the engine RUNNING
BackoffOverStillRunning ==
  \E id \in Tasks :
    /\ task_pc[id] = "backoff_wait"
    /\ now >= wake_at[id]
    /\ ~cancel_requested[id]
    /\ state = "RUNNING"
    /\ is_running_flag

\* C10: the list _consolidate_signals returns holds at most one signal per
\* symbol and at most max(MAX_SIGNALS_PER_CYCLE, 1) signals.
ConsolidatedAtMostCap ==
  turn = "idle" =>
    /\ \A i, j \in DOMAIN pending : pending[i].symbol = pending[j].symbol => i = j
    /\ Len(pending) <= IF settings.MAX_SIGNALS_PER_CYCLE >= 1
                       THEN settings.MAX_SIGNALS_PER_CYCLE ELSE 1
    /\ \A i \in DOMAIN pending : \E k \in DOMAIN signals : signals[k] = pending[i]

\* C10 witness: two symbols won, MAX_SIGNALS_PER_CYCLE is 0, one signal is returned
OneSignalUnderZeroCap ==
  /\ turn = "idle"
  /\ settings.MAX_SIGNALS_PER_CYCLE = 0
  /\ Len(signals) = 2
  /\ signals[1].symbol # signals[2].symbol
  /\ \A k \in DOMAIN signals : signals[k].action = "BUY" /\ signals[k].confidence = 80
  /\ portfolio_manager.positions = <<>>
  /\ \A s \in Symbols : last_trade_at[s] = None
  /\ Len(pending) = 1

\* C10 as stated: at most MAX_SIGNALS_PER_CYCLE signals for every configuration
ConsolidatedAtMostSetting ==
  turn = "idle" =>
    /\ \A i, j \in DOMAIN pending : pending[i].symbol = pending[j].symbol => i = j
    /\ Len(pending) <= settings.MAX_SIGNALS_PER_CYCLE

\* ---- conflict resolution of the consolidator (SpecCons) ----
ConsideredNow == Considered(signals, last_trade_at, now)
SideConfidences(s, side) ==
  {ConsideredNow[i].confidence :
     i \in {j \in DOMAIN ConsideredNow :
              ConsideredNow[j].symbol = s /\ ConsideredNow[j].action = side}}
OutFor(s) == {i \in DOMAIN pending : pending[i].symbol = s}
ConflictRecorded(s) ==
  \E i \in DOMAIN recent_events :
     recent_events[i].type = "signal_conflict" /\ recent_events[i].symbol = s
HeldNow(s) ==
  s \in DOMAIN portfolio_manager.positions /\ portfolio_manager.positions[s].quantity > 0
\* the later stages of the consolidation let a pick of this side through
PickSurvives(s, side) ==
  /\ \E c \in SideConfidences(s, side) : c >= settings.MIN_SIGNAL_CONFIDENCE
  /\ side = "BUY" => ~HeldNow(s)
  /\ side = "SELL" =>
        /\ HeldNow(s)
        /\ now - portfolio_manager.positions[s].opened_at >= settings.MIN_HOLD_SECONDS
  /\ Cardinality({ConsideredNow[i].symbol : i \in DOMAIN ConsideredNow})
        <= Max(settings.MAX_SIGNALS_PER_CYCLE, 1)
DominantSidePicked(s, side) ==
  /\ ~ConflictRecorded(s)
  /\ \A i \in OutFor(s) :
        /\ pending[i].action = side
        /\ \E j \in DOMAIN ConsideredNow : ConsideredNow[j] = pending[i]
        /\ \A c \in SideConfidences(s, side) : c <= pending[i].confidence
  /\ PickSurvives(s, side) => OutFor(s) # {}

\* C11: for a symbol whose BUY strength and SELL strength are both positive,
\* when one side's strength is at least the other's times the conflict ratio
\* the symbol's consolidated signal is a highest-confidence signal of that
\* side (it is emitted whenever the minimum confidence, the position rules
\* and the per-cycle cap that follow let it through, no conflict is logged);
\* when neither side reaches the ratio nothing is emitted for the symbol and
\* a signal_conflict event for it is recorded.
ConflictResolvedByRatio ==
  turn = "idle" =>
    \A s \in Symbols :
      LET bs == Strength(ConsideredNow, strategies, s, "BUY")
          ss == Strength(ConsideredNow, strategies, s, "SELL")
      IN (bs > 0 /\ ss > 0) =>
           IF bs * 100 >= ss * settings.CONFLICT_STRENGTH_RATIO
           THEN DominantSidePicked(s, "BUY")
           ELSE IF ss * 100 >= bs * settings.CONFLICT_STRENGTH_RATIO
           THEN DominantSidePicked(s, "SELL")
           ELSE OutFor(s) = {} /\ ConflictRecorded(s)

\* BUY at confidence 0.8 against SELL at 0.5 on one symbol, ratio 1.35: the
\* BUY is the consolidated signal
DominantBuyEmitted ==
  /\ turn = "idle"
  /\ Len(signals) = 2
  /\ signals[1].symbol = signals[2].symbol
  /\ signals[1].action = "SELL" /\ signals[1].confidence = 50
  /\ signals[2].action = "BUY" /\ signals[2].confidence = 80
  /\ pending = <<signals[2]>>

\* C12: no strategy-originated signal survives consolidation for a symbol
\* while less than the cooldown has elapsed since the last executed trade on
\* that symbol, and so no strategy-originated trade on a symbol executes
\* within the cooldown of an earlier trade on it, whatever that trade was.
CooldownAfterAnyTrade ==
  /\ \A i \in DOMAIN pending, k \in DOMAIN trade_rows :
        (pending[i].strategy # "risk_exit" /\ trade_rows[k].symbol = pending[i].symbol)
          => now - trade_rows[k].timestamp >= settings.SIGNAL_COOLDOWN_SECONDS
  /\ \A j \in DOMAIN trade_rows, k \in DOMAIN trade_rows :
        (k < j /\ trade_rows[j].strategy # "risk_exit"
               /\ trade_rows[k].symbol = trade_rows[j].symbol)
          => trade_rows[j].timestamp - trade_rows[k].timestamp
               >= settings.SIGNAL_COOLDOWN_SECONDS

\* ---- position rules ----
Held(pm, s) == s \in DOMAIN pm.positions /\ pm.positions[s].quantity > 0

\* C13: in every cycle the consolidated signals hold no BUY for a symbol with
\* an open position (quantity > 0) and no SELL for a symbol without one, up to
\* the moment each is processed; and an open position is never added to: from
\* one step to the next its quantity and average price stay as they are until
\* it is closed.
NoPyramidingNoNakedSell ==
  [][ /\ \A i \in DOMAIN pending' :
           /\ pending'[i].action = "BUY" => ~Held(portfolio_manager', pending'[i].symbol)
           /\ pending'[i].action = "SELL" => Held(portfolio_manager', pending'[i].symbol)
      /\ \A s \in Symbols :
           (Held(portfolio_manager, s) /\ s \in DOMAIN portfolio_manager'.positions)
             => /\ portfolio_manager'.positions[s].quantity
                     = portfolio_manager.positions[s].quantity
                /\ portfolio_manager'.positions[s].average_price
                     = portfolio_manager.positions[s].average_price ]_vars

\* a strategy proposed a BUY for the symbol of the open position and the
\* consolidation emitted nothing
BuyOnHeldSymbolDropped ==
  /\ \E id \in Tasks : task_pc[id] = "process"
  /\ \E i \in DOMAIN signals :
        signals[i].action = "BUY" /\ Held(portfolio_manager, signals[i].symbol)
  /\ pending = <<>>
  /\ orders = <<>>

\* ---- minimum hold ----
\* the position on s has been open for less than MIN_HOLD_SECONDS
InsideMinHold(pm, s, t) ==
  /\ Held(pm, s)
  /\ pm.positions[s].opened_at # None
  /\ t - pm.positions[s].opened_at < settings.MIN_HOLD_SECONDS
IsExitRow(row, s, t) ==
  /\ row.symbol = s /\ row.side = "SELL" /\ row.strategy = "risk_exit"
  /\ row.timestamp = t

\* C14: while a position has been open for less than the minimum hold, no
\* strategy-originated SELL for its symbol is among the consolidated signals
\* and none is executed; but when the exit sweep finds the position at or
\* below its stop-loss in that period, the risk_exit SELL is executed in that
\* very pass: the position is closed and the trade written, without any
\* validation by the RiskManager (whose state the pass leaves untouched).
MinHoldBlocksStrategySellOnly ==
  [][ /\ \A i \in DOMAIN pending' :
           (pending'[i].action = "SELL" /\ pending'[i].strategy # "risk_exit")
             => ~InsideMinHold(portfolio_manager', pending'[i].symbol, now')
      /\ (trade_rows' # trade_rows
            /\ trade_rows'[Len(trade_rows')].side = "SELL"
            /\ trade_rows'[Len(trade_rows')].strategy # "risk_exit")
           => ~InsideMinHold(portfolio_manager, trade_rows'[Len(trade_rows')].symbol, now)
      /\ \A id \in Tasks :
           (/\ turn = "loop" /\ task_pc[id] = "exits" /\ exit_items # <<>>
            /\ LET item == Head(exit_items)
               IN /\ market_data[item.symbol] # None
                  /\ item.pos.stop_loss # None
                  /\ market_data[item.symbol] <= item.pos.stop_loss
                  /\ InsideMinHold(portfolio_manager, item.symbol, now)
                  /\ portfolio_manager.positions[item.symbol] = item.pos)
           => LET item == Head(exit_items)
              IN /\ item.symbol \notin DOMAIN portfolio_manager'.positions
                 /\ Len(trade_rows') = Len(trade_rows) + 1
                 /\ IsExitRow(trade_rows'[Len(trade_rows')], item.symbol, now)
                 /\ risk_manager' = risk_manager ]_vars

\* in one cycle a strategy SELL for the freshly opened position was dropped
\* and the stop-loss exit of the same position was executed
StrategySellDroppedExitExecuted ==
  /\ \E id \in Tasks : task_pc[id] = "exits"
  /\ \E i \in DOMAIN signals :
        /\ signals[i].action = "SELL" /\ signals[i].strategy # "risk_exit"
        /\ signals[i].symbol = DEFAULT_SYMBOLS[1]
  /\ db_portfolio.positions # <<>>
  /\ market_data[DEFAULT_SYMBOLS[1]] = db_portfolio.positions[DEFAULT_SYMBOLS[1]].stop_loss
  /\ now - db_portfolio.positions[DEFAULT_SYMBOLS[1]].opened_at < settings.MIN_HOLD_SECONDS
  /\ Len(trade_rows) = 1
  /\ trade_rows[1].strategy = "risk_exit"
  /\ trade_rows[1].symbol = DEFAULT_SYMBOLS[1]
  /\ trade_rows[1].timestamp = now

\* ---- hourly rate limit (SpecHourly) ----
\* the executed trades whose timestamps lie inside the trailing hour
InsideHour == {i \in DOMAIN trade_timestamps : trade_timestamps[i] >= now - HourTicks}
HourlyRejected(events) ==
  /\ events # <<>>
  /\ events[1].type = "rejected"
  /\ events[1].message = "hourly trade limit reached"

\* C15: when a strategy-originated signal is processed while the timestamps
\* of MAX_TRADES_PER_HOUR executed trades lie inside the trailing 60 minutes,
\* it is rejected with "hourly trade limit reached" and nothing is executed;
\* when fewer lie inside (the older ones being more than 60 minutes old), the
\* signal is not rejected by the rate limit, and the timestamps older than
\* 60 minutes are gone from the window.
HourlyLimitSlides ==
  [][ (turn = "process" /\ pending # <<>> /\ Head(pending).strategy # "risk_exit")
        => IF Cardinality(InsideHour) >= settings.MAX_TRADES_PER_HOUR
           THEN /\ HourlyRejected(recent_events')
                /\ Len(recent_events') = Len(recent_events) + 1
                /\ trade_rows' = trade_rows
                /\ portfolio_manager' = portfolio_manager
                /\ orders' = orders
           ELSE /\ ~HourlyRejected(recent_events')
                /\ \A i \in DOMAIN trade_timestamps' :
                      trade_timestamps'[i] >= now - HourTicks ]_vars

\* a signal was rejected by the rate limit, and more than an hour after the
\* oldest trade of the window the next signal was executed
AdmittedAgainAfterAnHour ==
  /\ Len(recent_events) >= 2
  /\ recent_events[1].type = "trade"
  /\ recent_events[2].message = "hourly trade limit reached"
  /\ now > HourTicks

\* ---- the order of the stages (SpecHourly) ----
IsPrefix(p, q) == Len(p) <= Len(q) /\ \A i \in DOMAIN p : p[i] = q[i]
StagesInTheCode ==
  <<"_passes_hourly_trade_limit", "validate_signal", "_passes_edge_filter",
    "execute_trade", "record_trade">>
StagesAsClaimed ==
  <<"_passes_hourly_trade_limit", "_passes_edge_filter", "validate_signal",
    "execute_trade", "record_trade">>

\* C16 (as amended): every strategy-originated consolidated signal goes
\* through the hourly rate check, RiskManager.validate_signal, the edge
\* filter, PortfolioManager.execute_trade and RiskManager.record_trade in
\* this order, each stage being reached exactly if every earlier one
\* accepted; a signal refused by validate_signal never reaches the edge
\* filter.
StagesInOrder ==
  [][ (turn = "process" /\ pending # <<>> /\ Head(pending).strategy # "risk_exit")
        => LET sig == Head(pending)
               h == Cardinality(InsideHour) < Max(settings.MAX_TRADES_PER_HOUR, 1)
               v == validate_signal(risk_manager, portfolio_manager, sig, now).ok
               e == _passes_edge_filter(sig)
               x == trade_rows' # trade_rows
               reached == IF ~h THEN 1 ELSE IF ~v THEN 2 ELSE IF ~e THEN 3
                          ELSE IF ~x THEN 4 ELSE 5
           IN /\ calls' = SubSeq(StagesInTheCode, 1, reached)
              /\ x => (h /\ v /\ e) ]_vars

\* a signal that validate_signal accepted and the edge filter then refused
ValidatedThenRefusedByEdge ==
  /\ turn = "process"
  /\ calls = <<"_passes_hourly_trade_limit", "validate_signal", "_passes_edge_filter">>
  /\ recent_events # <<>>
  /\ recent_events[1].message = "execution rejected"
  /\ \E i \in DOMAIN signals : ~_passes_edge_filter(signals[i])

\* C16 (as stated): the stages are reached in the order hourly rate check,
\* edge filter, validate_signal, execute_trade, record_trade, and a signal the
\* edge filter refused has not reached validate_signal.
StagesInClaimedOrder ==
  /\ IsPrefix(calls, StagesAsClaimed)
  /\ (calls # <<>> /\ calls[Len(calls)] = "_passes_edge_filter")
       => \A i \in DOMAIN calls : calls[i] # "validate_signal"

\* ---- validate_signal (SpecValidate) ----
ValidationReasons ==
  <<"daily trade limit reached", "daily loss limit reached", "position size too small",
    "correlation limit exceeded", "portfolio risk limit exceeded",
    "position concentration limit exceeded", "volume too low">>

\* which of the seven checks the signal fails on the books the call leaves
FailedChecks ==
  LET sig == Head(signals)
      size == calculate_position_size(risk_manager, portfolio_manager, sig)
  IN {i \in 1..7 :
        \/ i = 1 /\ ~_check_daily_trade_limit(risk_manager)
        \/ i = 2 /\ ~_check_daily_loss_limit(risk_manager, portfolio_manager)
        \/ i = 3 /\ size <= 0
        \/ i = 4 /\ sig.action = "BUY" /\ ~_check_correlation_limit(risk_manager, portfolio_manager, sig)
        \/ i = 5 /\ sig.action = "BUY" /\ ~_check_portfolio_risk_limit(risk_manager, portfolio_manager, sig)
        \/ i = 6 /\ ~_check_sector_exposure_limit(risk_manager, portfolio_manager, sig, size)
        \/ i = 7 /\ ~_check_volume_requirements(risk_manager, sig)}

\* C17: validate_signal evaluates daily trade count, daily loss, sizing,
\* correlation (BUY only), risk per trade (BUY only), concentration and
\* minimum volume in this order; it answers not-ok with the reason of the
\* first check that fails, having evaluated no later check, and ok exactly
\* if none fails.
ValidationShortCircuits ==
  turn = "validated" =>
    IF FailedChecks = {}
    THEN risk_result.ok /\ calls = ValidationChecks
    ELSE LET first == CHOOSE i \in FailedChecks : \A j \in FailedChecks : i <= j
         IN /\ ~risk_result.ok
            /\ risk_result.reason = ValidationReasons[first]
            /\ calls = SubSeq(ValidationChecks, 1, first)

\* a BUY that has used up the day's trades and lost more than the day's
\* limit is refused for the trade count, and nothing else was looked at
RefusedAtTheFirstOfTwo ==
  /\ turn = "validated"
  /\ {1, 2} \subseteq FailedChecks
  /\ risk_result.reason = "daily trade limit reached"
  /\ calls = <<"_check_daily_trade_limit">>

\* ---- calculate_position_size (SpecValidate) ----
HeldQuantity(pm, s) == IF s \in DOMAIN pm.positions THEN pm.positions[s].quantity ELSE 0

\* C18: for a SELL calculate_position_size returns exactly the quantity held
\* of the signal's symbol, 0 if there is no position; the call changes nothing
\* of the RiskManager, the portfolio or the signal, and a further call on the
\* unchanged position returns the same value.
SellSizeIsHeldQuantity ==
  [][ turn' = "sized" =>
        /\ Head(signals).action = "SELL" =>
              ret'.outcome = HeldQuantity(portfolio_manager, Head(signals).symbol)
        /\ UNCHANGED <<portfolio_manager, risk_manager, signals, pending, trade_rows>>
        /\ turn = "sized" => ret'.outcome = ret.outcome ]_vars

\* a SELL for the symbol of the open position was sized at the whole of it
SellSizedAtWholePosition ==
  /\ turn = "sized"
  /\ Head(signals).action = "SELL"
  /\ Head(signals).symbol \in DOMAIN portfolio_manager.positions
  /\ ret.outcome = portfolio_manager.positions[Head(signals).symbol].quantity
  /\ ret.outcome > 0

\* C19: for every BUY the size calculate_position_size returns has a notional
\* of at most max_position_size of the portfolio value, whatever the
\* minimum-units and minimum-notional floors:
\* size * price <= max_position_size * portfolio_value.
BuyNotionalWithinMaxPosition ==
  (turn = "sized" /\ Head(signals).action = "BUY")
    => ret.outcome * Head(signals).price * Mills * 100
         <= risk_manager.risk_limits.max_position_size
              * _get_portfolio_value(portfolio_manager)

\* C20: for a BUY (with a stop-loss, on a portfolio whose cash covers the
\* minimum notional) the size calculate_position_size returns is positive and
\* its notional does not exceed the cash balance of the portfolio, even when
\* the risk-based and max-position sizes would allow more.
BuyNotionalWithinCash ==
  (turn = "sized" /\ Head(signals).action = "BUY" /\ Head(signals).stop_loss # None
     /\ portfolio_manager.cash_balance >= MIN_POSITION_NOTIONAL * Mills)
    => /\ ret.outcome > 0
       /\ ret.outcome * Head(signals).price * Mills <= portfolio_manager.cash_balance

\* C21: with fixed-notional sizing configured (FIXED_TRADE_NOTIONAL_USD > 0)
\* the size calculate_position_size returns for a BUY is fixedNotional / price,
\* and the minimum-notional floor does not raise it even when
\* MIN_POSITION_NOTIONAL is larger than the fixed notional.
FixedNotionalSizesBuy ==
  (/\ turn = "sized"
   /\ Head(signals).action = "BUY"
   /\ Head(signals).stop_loss # None
   /\ _get_portfolio_value(portfolio_manager) > 0
   /\ settings.FIXED_TRADE_NOTIONAL_USD > 0)
    => ret.outcome = settings.FIXED_TRADE_NOTIONAL_USD \div Head(signals).price

\* C22: when MAX_BUY_NOTIONAL_USD > 0, every BUY order handed to the
\* PortfolioManager has quantity * price <= MAX_BUY_NOTIONAL_USD, whatever
\* quantity the signal carried or the RiskManager computed.
BuyOrdersWithinNotionalCap ==
  settings.MAX_BUY_NOTIONAL_USD > 0
    => \A i \in DOMAIN orders :
         orders[i].side = "BUY"
           => orders[i].quantity * orders[i].price <= settings.MAX_BUY_NOTIONAL_USD

\* a BUY that the RiskManager sized beyond the cap was submitted cut down to it
BuyOrderCutToCap ==
  /\ settings.MAX_BUY_NOTIONAL_USD > 0
  /\ \E i \in DOMAIN orders :
       /\ orders[i].side = "BUY"
       /\ orders[i].quantity > 0
       /\ orders[i].quantity = settings.MAX_BUY_NOTIONAL_USD \div orders[i].price
       /\ \E row \in {trade_rows[k] : k \in DOMAIN trade_rows} :
            row.symbol = orders[i].symbol /\ row.side = "BUY"

\* C23: a signal whose strategy is risk_exit passes the edge filter for every
\* input: any price (also <= 0), missing stop-loss or take-profit, any history
\* and either filter mode.
RiskExitPassesEdgeFilter ==
  (turn = "edged" /\ Head(signals).strategy = "risk_exit") => ret.outcome = TRUE

\* an exit signal without price, stop-loss and take-profit passed the adaptive
\* filter
BareExitPassed ==
  /\ turn = "edged"
  /\ settings.ADVANCED_ENTRY_FILTER_ENABLED
  /\ Head(signals).strategy = "risk_exit"
  /\ Head(signals).price <= 0
  /\ Head(signals).stop_loss = None /\ Head(signals).take_profit = None
  /\ ret.outcome = TRUE

\* the reward floor of the adaptive filter for a history of standard deviation
\* sd (basis points), in hundredths of a basis point:
\* max(min edge, (2 * fee + slippage) + sd * multiplier)
RewardFloor(sd) ==
  Max(ENTRY_FILTER_MIN_EXPECTED_EDGE * 100,
      (2 * ENTRY_FILTER_FEE_BPS_PER_SIDE + ENTRY_FILTER_SLIPPAGE_BPS) * 100
        + sd * ENTRY_FILTER_VOL_MULTIPLIER)

\* |take_profit - price| / price of the signal is below the floor
RewardBelowFloor(signal) ==
  /\ signal.price > 0 /\ signal.take_profit # None
  /\ Abs(signal.take_profit - signal.price) * 1000000
       < RewardFloor(IF signal.stats.present THEN signal.stats.std ELSE 0) * signal.price

\* C24: in adaptive mode every signal that is not a risk_exit and whose
\* expected reward |take_profit - price| / price is below
\* max(min edge, (2 * fee + slippage)/10000 + stdev * multiplier) is rejected by
\* the edge filter, for every stdev >= 0 and every other input.
LowRewardRejected ==
  (/\ turn = "edged"
   /\ settings.ADVANCED_ENTRY_FILTER_ENABLED
   /\ Head(signals).strategy # "risk_exit"
   /\ RewardBelowFloor(Head(signals)))
    => ret.outcome = FALSE

\* a signal whose reward clears the configured minimum edge, on a reward/risk
\* of 5 and a history too short for the trend check, was rejected because the
\* volatility of its history lifts the floor above its reward
RejectedByVolatilityFloor ==
  /\ turn = "edged"
  /\ settings.ADVANCED_ENTRY_FILTER_ENABLED
  /\ Head(signals).strategy # "risk_exit"
  /\ RewardBelowFloor(Head(signals))
  /\ Head(signals).stats.present /\ Head(signals).stats.std > 0
  /\ Head(signals).stats.count < ENTRY_FILTER_MIN_HISTORY
  /\ RewardDistance(Head(signals)) * 10000
       >= ENTRY_FILTER_MIN_EXPECTED_EDGE * Head(signals).price
  /\ RiskDistance(Head(signals)) > 0
  /\ RewardDistance(Head(signals)) >= 5 * RiskDistance(Head(signals))
  /\ ret.outcome = FALSE

\* C25: the peak portfolio value of the RiskManager never decreases over any
\* sequence of validate_signal, record_trade, check_risk_limits,
\* get_risk_metrics and update_risk_limits, and after check_risk_limits it is
\* at least the current portfolio value.
PeakNeverDecreases ==
  [][/\ risk_manager'.peak_portfolio_value >= risk_manager.peak_portfolio_value
     /\ ret'.op = "check_risk_limits"
          => risk_manager'.peak_portfolio_value >= _get_portfolio_value(portfolio_manager')]_vars

\* the value rose above the old peak, a check lifted the peak to it, the value
\* fell back and a later check left the peak where it was
PeakKeptAfterFall ==
  /\ ret.op = "check_risk_limits"
  /\ risk_manager.peak_portfolio_value > DEFAULT_CAPITAL * Mills
  /\ _get_portfolio_value(portfolio_manager) < DEFAULT_CAPITAL * Mills

\* the trades written to the trades table on the date of the moment t
RecordedOn(t) ==
  Cardinality({k \in DOMAIN trade_rows : Date(trade_rows[k].timestamp) = Date(t)})

\* C26: the daily trade count and the daily realised P&L are reset to zero
\* exactly once for each UTC date change, at the first operation of the
\* RiskManager performed on the new date, and never by an operation on the
\* date of the last reset: after every operation that reads or writes the
\* counters they are those of today, the count being the number of trades
\* recorded today.
CountersResetAtFirstOperation ==
  ret.op \in {"validate_signal", "record_trade", "check_risk_limits", "get_risk_metrics"}
    => /\ risk_manager.last_reset_date = Date(now)
       /\ risk_manager.daily_trades = RecordedOn(now)

\* a step that consolidates the signals of a cycle, and a step that runs one
\* pass of the loop body of _process_signals
ConsolidationStep == \E id \in Tasks : task_pc[id] = "generate" /\ task_pc'[id] = "process"
ProcessStep == pending # <<>> /\ pending' = Tail(pending) /\ calls' # <<>>

\* the events a step has put in front of recent_events
NewEvents == SubSeq(recent_events', 1, Len(recent_events') - Len(recent_events))
AppendsEvents ==
  /\ Len(recent_events') >= Len(recent_events)
  /\ SubSeq(recent_events', Len(recent_events') - Len(recent_events) + 1, Len(recent_events'))
       = recent_events

\* the signals of the cycle that the cooldown or the minimum hold stops
StoppedByCooldown(sg) ==
  sg.action \in {"BUY", "SELL"} /\ ~_passes_cooldown(last_trade_at, sg.symbol, now, sg.strategy)
StoppedByMinHold(sg) ==
  /\ sg.action = "SELL" /\ sg.strategy # "risk_exit"
  /\ _passes_cooldown(last_trade_at, sg.symbol, now, sg.strategy)
  /\ Held(portfolio_manager, sg.symbol)
  /\ InsideMinHold(portfolio_manager, sg.symbol, now)

\* C27 (as the code has it): a consolidated signal that the hourly limit, the
\* RiskManager or the execution (edge filter, size, PortfolioManager) rejects
\* appends one "rejected" event for its symbol and strategy whose message is
\* "hourly trade limit reached", the reason of the RiskManager, or
\* "execution rejected"; consolidation appends nothing but "signal_conflict"
\* events ("conflicting signals dropped") for symbols with signals on both
\* sides and none emitted, so a signal dropped by the cooldown or the minimum
\* hold leaves no event.
RejectionsLeaveTheseEvents ==
  [][/\ ProcessStep =>
          LET sig == Head(pending)
              ev == Head(recent_events')
          IN /\ AppendsEvents /\ Len(NewEvents) = 1
             /\ ev.symbol = sig.symbol /\ ev.strategy = sig.strategy
             /\ IF "record_trade" \in {calls'[i] : i \in DOMAIN calls'}
                THEN ev.type = "trade" /\ ev.message = "executed"
                ELSE /\ ev.type = "rejected"
                     /\ calls' = <<"_passes_hourly_trade_limit">>
                          => ev.message = "hourly trade limit reached"
                     /\ calls' = <<"_passes_hourly_trade_limit", "validate_signal">>
                          => ev.message \in {ValidationReasons[i] : i \in DOMAIN ValidationReasons}
                     /\ Len(calls') > 2 => ev.message = "execution rejected"
     /\ ConsolidationStep =>
          /\ AppendsEvents
          /\ \A k \in DOMAIN NewEvents :
               /\ NewEvents[k].type = "signal_conflict"
               /\ NewEvents[k].message = "conflicting signals dropped"
               /\ \A side \in {"BUY", "SELL"} :
                    \E i \in DOMAIN signals' :
                      signals'[i].symbol = NewEvents[k].symbol /\ signals'[i].action = side
               /\ \A i \in DOMAIN pending' : pending'[i].symbol # NewEvents[k].symbol
               /\ \A i \in DOMAIN signals' :
                    signals'[i].symbol = NewEvents[k].symbol
                      => ~StoppedByCooldown(signals'[i])]_vars

\* the RiskManager refused a consolidated signal and the event in front of
\* the ring carries its reason
RefusalEventCarriesReason ==
  /\ calls = <<"_passes_hourly_trade_limit", "validate_signal">>
  /\ recent_events # <<>>
  /\ Head(recent_events).type = "rejected"
  /\ Head(recent_events).message \in {ValidationReasons[i] : i \in DOMAIN ValidationReasons}

\* C27 (as stated): every strategy signal rejected because of the cooldown or
\* the minimum hold (as well as a conflict, the edge filter or the
\* RiskManager) appends a RecentEvent carrying the reason: once the signals of
\* a cycle are consolidated, each of them that the cooldown or the minimum
\* hold stopped has a rejection event for its symbol and strategy.
DroppedSignalsHaveEvents ==
  \A id \in Tasks :
    (task_pc[id] = "process" /\ calls = <<>>)
      => \A i \in DOMAIN signals :
           (StoppedByCooldown(signals[i]) \/ StoppedByMinHold(signals[i]))
             => \E k \in DOMAIN recent_events :
                  /\ recent_events[k].symbol = signals[i].symbol
                  /\ recent_events[k].strategy = signals[i].strategy
                  /\ recent_events[k].type = "rejected"

\* C28: an error of one strategy's generate_signal, or one symbol's faulty
\* snapshot or history, affects only that strategy or symbol: the other
\* strategies and symbols are still evaluated and the signal processing, the
\* exit sweep, the valuation refresh and the risk check of the same cycle
\* still run.  A cycle that has its market data therefore always goes on to
\* process its signals, and from there to the sweep, the refresh and the
\* check, whatever the history rows of the data are like.
DataFaultKeepsCycleGoing ==
  [][\A id \in Tasks :
       /\ (task_pc[id] = "generate" /\ task_pc'[id] # "generate")
            => task_pc'[id] = "process"
       /\ (task_pc[id] = "process" /\ task_pc'[id] # "process")
            => task_pc'[id] = "exits"
       /\ (task_pc[id] = "exits" /\ task_pc'[id] # "exits")
            => task_pc'[id] = "risk"]_vars

\* C29: a failure of the NotificationService (a false result, which is what
\* an error inside send_alert, send_trade_notification or send_risk_alert
\* comes out as) never aborts a cycle or changes its outcome: after an
\* executed trade, record_trade and the last-trade bookkeeping take place,
\* and after a risk-limit breach the engine halts to STOPPED, whether or not
\* the notification was delivered.
NotificationFailureChangesNothing ==
  [][/\ (ProcessStep /\ Len(trade_rows') > Len(trade_rows))
          => LET sig == Head(pending)
                 rm == _reset_daily_counters_if_needed(risk_manager, now)
             IN /\ last_alert'.title = "Trade Executed"
                /\ risk_manager'.daily_trades = rm.daily_trades + 1
                /\ risk_manager'.daily_pnl
                     = rm.daily_pnl + trade_rows'[Len(trade_rows')].pnl
                /\ last_trade_at'[sig.symbol] = now
                /\ Head(recent_events').type = "trade"
                /\ strategies'[sig.strategy].total_trades
                     = strategies[sig.strategy].total_trades + 1
                /\ task_pc' = task_pc /\ state' = state
     /\ \A id \in Tasks :
          (task_pc[id] = "halt" /\ task_pc'[id] # "halt")
            => /\ last_alert'.title = "Risk Alert: Hard Limit Breach"
               /\ state' = "STOPPED" /\ ~is_running_flag'
               /\ task_pc'[id] = "done"
               /\ Head(recent_events').type = "risk_halt"]_vars

\* the engine has halted on a breach although the risk alert was not
\* delivered
HaltedWithoutAlert ==
  /\ state = "STOPPED" /\ ~is_running_flag
  /\ \E id \in Tasks : task_pc[id] = "done"
  /\ last_alert = [title |-> "Risk Alert: Hard Limit Breach", sent |-> FALSE]
  /\ recent_events # <<>> /\ Head(recent_events).type = "risk_halt"

\* C30: the ring of recent events holds at most 50 events, the most recent
\* first; adding an event puts it in front and moves every other event one
\* place back, and on a full ring it evicts exactly the oldest event and
\* leaves the other 49 and their order unchanged.
RingBoundedNewestFirst ==
  [][/\ Len(recent_events) <= 50 /\ Len(recent_events') <= 50
     /\ ret'.op = "_add_event"
          => /\ recent_events'[1] = ret'.outcome
             /\ Len(recent_events') = IF Len(recent_events) = 50 THEN 50
                                      ELSE Len(recent_events) + 1
             /\ \A i \in 1..(Len(recent_events') - 1) :
                  recent_events'[i + 1] = recent_events[i]]_vars

\* an event was added to a full ring: it stands in front of the 49 most
\* recent of the 50 the ring held
AddedToFullRing ==
  /\ ret.op = "_add_event"
  /\ now = 1
  /\ \E off \in 0..1 :
       recent_events = <<ret.outcome>> \o SubSeq(RingOf(50, off), 1, 49)
\* the fields of the RiskManager that are not limits
RiskStateOf(rm) ==
  [daily_trades |-> rm.daily_trades, daily_pnl |-> rm.daily_pnl,
   last_reset_date |-> rm.last_reset_date,
   peak_portfolio_value |-> rm.peak_portfolio_value]

Retryable(response) ==
  response = TransportError \/ response.status \in retryable_codes

\* C32: in live mode execute sends at most SOLANA_EXECUTOR_MAX_RETRIES + 1
\* requests for one trade, sends another only after a retryable status (408,
\* 409, 425, 429, 500, 502, 503, 504) or a transport error, sends the same
\* Idempotency-Key and client_order_id every time, returns the fill of the
\* first accepted response and returns none once the attempts are used up.
LiveExecuteRetriesOnlyRetryable ==
  turn \in {"attempt", "returned"} =>
    /\ Len(calls) <= settings.SOLANA_EXECUTOR_MAX_RETRIES + 1
    /\ \A i \in 1..Len(calls) :
         /\ i < Len(calls) => Retryable(calls[i].response)
         /\ calls[i].idempotency_key = calls[1].idempotency_key
         /\ calls[i].client_order_id = calls[1].client_order_id
    /\ (turn = "returned" /\ calls # <<>>) =>
         LET last == calls[Len(calls)].response
         IN IF last.status = 200 /\ last.ok
            THEN ret.outcome = Fill(orders[1], last)
            ELSE ret.outcome = None
    /\ (turn = "attempt" /\ calls # <<>>) =>
         Len(calls) < settings.SOLANA_EXECUTOR_MAX_RETRIES + 1

\* C33: every strategy BUY that passed validate_signal and was handed to the
\* PortfolioManager risks at most max_portfolio_risk of the portfolio value
\* of the moment of the validation: |price - stop_loss| * quantity <=
\* max_portfolio_risk * portfolio value, also when the minimum units or the
\* minimum notional raised the computed size.
SubmittedBuyWithinPortfolioRisk ==
  [][ (turn = "validate" /\ turn' = "processed" /\ orders' # orders)
        => LET o == orders'[Len(orders')]
           IN (o.side = "BUY" /\ o.strategy # "risk_exit")
                => Abs(o.price - o.stop_loss) * o.quantity * Mills * 100
                     <= risk_manager.risk_limits.max_portfolio_risk
                          * _get_portfolio_value(portfolio_manager) ]_vars

\* C33 witness: a BUY was handed over and executed whose size the minimum
\* notional had raised: it is worth more than max_position_size of the
\* portfolio value before the trade (the value now plus the fee paid)
FlooredBuySubmitted ==
  /\ turn = "processed"
  /\ orders # <<>>
  /\ orders[1].side = "BUY"
  /\ trade_rows # <<>>
  /\ orders[1].quantity = MIN_POSITION_NOTIONAL \div orders[1].price
  /\ orders[1].quantity > MIN_POSITION_UNITS
  /\ orders[1].quantity * orders[1].price * Mills * 100
       > risk_manager.risk_limits.max_position_size
           * (portfolio_manager.total_value
                + orders[1].quantity * orders[1].price * FeePerMille)

\* C34: within one UTC day at most max_daily_trades strategy trades are
\* executed: once that many have been executed on a date, validate_signal
\* refuses every further signal with "daily trade limit reached" until the
\* counters are reset on the next date.
DailyTradesWithinLimit ==
  /\ \A t \in OpsTimes : RecordedOn(t) <= risk_manager.risk_limits.max_daily_trades
  /\ (ret.op = "validate_signal"
        /\ RecordedOn(now) >= risk_manager.risk_limits.max_daily_trades)
       => (~risk_result.ok /\ risk_result.reason = "daily trade limit reached")

\* the trade of the k-th row of the trades table has been recorded: the
\* symbol's last trade time is not before it, and while the counters are
\* those of its date they count it
RowRecorded(k) ==
  LET row == trade_rows[k]
  IN /\ last_trade_at[row.symbol] # None
     /\ last_trade_at[row.symbol] >= row.timestamp
     /\ risk_manager.last_reset_date = Date(row.timestamp)
          => risk_manager.daily_trades
               >= Cardinality({j \in DOMAIN trade_rows :
                                 Date(trade_rows[j].timestamp) = Date(row.timestamp)})

\* C35: stop() leaves no cycle partly processed: wherever the cancellation
\* reached the loop, every trade that was executed has been recorded by
\* record_trade and in the symbol's last trade time when stop() returns.
StopLeavesTradesRecorded ==
  [][ (stop_pc = "set_stopped" /\ stop_pc' = "idle" /\ state' = "STOPPED")
        => \A k \in DOMAIN trade_rows' : RowRecorded(k)' ]_vars

\* the realised P&L of the first n rows of the trades table that were
\* written on the date of the moment t
RECURSIVE RealizedOn(_, _)
RealizedOn(n, t) ==
  IF n = 0 THEN 0
  ELSE RealizedOn(n - 1, t)
         + (IF Date(trade_rows[n].timestamp) = Date(t) THEN trade_rows[n].pnl ELSE 0)

\* C36: after any sequence of cycles within one UTC day the daily trade
\* count of the RiskManager is the number of trades executed that day and its
\* daily P&L is the sum of their realised P&L, the trades of forced exits
\* (risk_exit) included.
DailyCountersCoverEveryTrade ==
  (turn = "idle" /\ risk_manager.last_reset_date = Date(now))
    => /\ risk_manager.daily_trades = RecordedOn(now)
       /\ risk_manager.daily_pnl = RealizedOn(Len(trade_rows), now)

\* C37: while the engine is STOPPED or in ERROR the loop is not active: the
\* running flag is false, no loop task is alive, and no cycle, trade or exit
\* sweep takes place (the books, the orders and the cycle's data stay as they
\* are) until a start() goes ahead.
StoppedEngineRunsNothing ==
  [][(state \in {"STOPPED", "ERROR"})
       => (/\ ~is_running_flag
           /\ \A id \in Tasks : ~Active(id)
           /\ turn # "loop"
           /\ UNCHANGED <<portfolio_manager, risk_manager, trade_rows, trade_timestamps,
                          last_trade_at, recent_events, cycle_vars, risk_result>>
           /\ (state' # state) => (state = "STOPPED" /\ state' = "STARTING"))]_vars

\* C37 witness: the engine traded, halted on a breach, was started again and
\* then stopped: it is STOPPED with both loop tasks finished
StoppedAfterTwoSessions ==
  /\ state = "STOPPED"
  /\ ~is_running_flag
  /\ trading_task = 2
  /\ task_pc[1] = "done"
  /\ task_pc[2] = "cancelled"
  /\ trade_rows # <<>>

\* C38: every cycle that obtained a non-empty market snapshot runs the exit
\* sweep before it ends, also when the signal generation, the consolidation
\* or the signal processing of the cycle failed: a cycle with data ends only
\* from behind the sweep (at the risk check or the halt that follow it).
DataCycleEndsAfterSweep ==
  [][\A id \in Tasks :
       (task_pc[id] \in CyclePcs /\ task_pc'[id] \notin CyclePcs)
         => task_pc[id] \in {"risk", "halt"}]_vars

\* the engine has been started again after a hard-limit halt
RestartedAfterHalt ==
  /\ state = "RUNNING"
  /\ trading_task > 1
  /\ task_pc[trading_task - 1] = "done"

\* the daily-loss breach of check_risk_limits holds on the present books
DailyLossBreachHolds ==
  LET rm == _reset_daily_counters_if_needed(risk_manager, now)
      portfolio_value == _get_portfolio_value(portfolio_manager)
  IN portfolio_value > 0 /\ DailyLossExceeded(rm, portfolio_value)

\* the max-drawdown breach of check_risk_limits holds on the present books
DrawdownBreachHolds ==
  LET portfolio_value == _get_portfolio_value(portfolio_manager)
  IN portfolio_value > 0 /\ DrawdownExceeds(risk_manager, portfolio_value)

\* a step that executes a BUY
BuyExecuted ==
  /\ Len(trade_rows') > Len(trade_rows)
  /\ trade_rows'[Len(trade_rows')].side = "BUY"

CashNeverNegative ==
  [][(turn = "trade" /\ orders' # <<>>)
       => LET trade_data == orders'[1]
              cost == trade_data.quantity * trade_data.price * (Mills + FeePerMille)
          IN /\ portfolio_manager'.cash_balance >= 0
             /\ (trade_data.side = "BUY" /\ cost > portfolio_manager.cash_balance)
                  => (ret'.outcome = None /\ portfolio_manager' = portfolio_manager)]_vars
====
